---- MODULE Spec2Model ----
(***************************************************************************)
(* Verification model of bucciafico-lib: the voxelizers (Voxelizer.js,     *)
(* ItemFactory), the character model (SkinModel.js) and the item and       *)
(* effect plugins.                                                         *)
(*                                                                         *)
(* Numbers.  The code computes with IEEE doubles; the model computes with  *)
(* exact scaled integers:                                                  *)
(*   - vertex coordinates and slab centres in quarter voxel units (x4),    *)
(*     cube template coordinates and scale factors in half units (x2);     *)
(*   - skin-layer UVs in units of 1/128 (u+0.5)/64 = (2u+1)/128;           *)
(*   - glow thickness in units of 1/4000 (base thickness in tenths);       *)
(*   - glow opacity as an exact fraction <<num, den>>.                     *)
(***************************************************************************)
EXTENDS Integers, Sequences, FiniteSets, TLC

(***************************************************************************)
(* Bounds of the model.                                                    *)
(***************************************************************************)
\* largest box dimension (w, h, d) of the small layer definitions
MaxDim == 2
\* largest width/height of an item sprite
MaxSprite == 2
\* longest sequence of calls made on a viewer
MaxCalls == 3
\* largest layer count the opacity budget is evaluated for
MaxLayers == 40

(***************************************************************************)
(* Program constants.                                                      *)
(***************************************************************************)
\* side of the scratch canvas / skin atlas (Voxelizer.js:9-10, 14, 16, 143)
ATLAS == 64
\* occupancy threshold of the item path (ItemFactory.generateMesh)
ITEM_ALPHA_MIN == 10
\* occupancy threshold of the skin-layer path (createVoxelLayer)
LAYER_ALPHA_MIN == 0
\* vertices and indices of one cube (CUBE.vertices / CUBE.indices)
CUBE_VERTS == 24
CUBE_INDICES == 36

\* a read past the end of the Uint8ClampedArray yields undefined
Undefined == -1

Null == [kind |-> "null"]

(***************************************************************************)
(* Textures.  A decoded image is a record [w, h, pat]; its alpha channel   *)
(* is a function of the texel position given by the pattern.               *)
(***************************************************************************)
AlphaLevels == <<0, 1, 10, 11, 255>>

ImageAlpha(tex, x, y) ==
    CASE tex.pat = "blank"   -> 0
      [] tex.pat = "opaque"  -> 255
      [] tex.pat = "checker" -> IF (x + y) % 2 = 0 THEN 255 ELSE 0
      [] tex.pat = "faint"   -> 10
      [] tex.pat = "mixed"   -> AlphaLevels[((x + 2 * y) % 5) + 1]
      [] tex.pat = "hat"     -> IF y < 16 THEN 255 ELSE 0
      [] OTHER               -> 0

\* The module-level scratch canvas (cachedCanvas, 64x64) is modelled by what
\* was drawn on it since it was last cleared: a sequence of images, each
\* drawn at (0,0) in its natural size and clipped to the canvas.
\* CanvasAlpha is the alpha drawImage(tex, 0, 0) brings to canvas pixel (x, y).
CanvasAlpha(tex, x, y) ==
    IF x < tex.w /\ y < tex.h THEN ImageAlpha(tex, x, y) ELSE 0

\* the alpha of pixel (x, y) of a canvas after its first n drawings:
\* source-over compositing, out = src + dst * (1 - src), in bytes
RECURSIVE PixelAlpha(_, _, _, _)
PixelAlpha(canvas, n, x, y) ==
    IF n = 0 THEN 0
    ELSE LET src == CanvasAlpha(canvas[n], x, y)
             dst == PixelAlpha(canvas, n - 1, x, y)
         IN  src + (dst * (255 - src)) \div 255

\* cachedCtx.clearRect(0, 0, 64, 64)
clearRect(canvas) == <<>>

\* cachedCtx.drawImage(image, 0, 0)
drawImage(canvas, image) == Append(canvas, image)

\* a getImageData that draws over what the canvas holds, without clearing
redrawNoClear(canvas, image) == drawImage(canvas, image)

\* getImageData(image), lines 14-15: the canvas is cleared and the image drawn
redraw(canvas, image) == drawImage(clearRect(canvas), image)

\* imgData[k] of cachedCtx.getImageData(0, 0, 64, 64).data for the canvas
\* content imgData: stride 4, alpha in channel 3; an index outside the array
\* reads undefined.
getImageData(imgData, k) ==
    IF k < 0 \/ k >= ATLAS * ATLAS * 4 THEN Undefined
    ELSE LET p == k \div 4
             c == k % 4
             x == p % ATLAS
             y == p \div ATLAS
         IN  IF c = 3 THEN PixelAlpha(imgData, Len(imgData), x, y)
             ELSE IF \E n \in 1..Len(imgData) : x < imgData[n].w /\ y < imgData[n].h
                  THEN 255 ELSE 0

\* JavaScript's  a > n  with a possibly undefined (undefined > n is false)
JsGreater(a, n) == a # Undefined /\ a > n

(***************************************************************************)
(* CUBE (Voxelizer.js:19-56), coordinates in half units.                   *)
(***************************************************************************)
CubeVertices ==
    << 1,-1, 1,   1,-1,-1,   1, 1,-1,   1, 1, 1,
      -1,-1, 1,  -1, 1, 1,  -1, 1,-1,  -1,-1,-1,
      -1, 1, 1,   1, 1, 1,   1, 1,-1,  -1, 1,-1,
      -1,-1, 1,  -1,-1,-1,   1,-1,-1,   1,-1, 1,
      -1,-1, 1,   1,-1, 1,   1, 1, 1,  -1, 1, 1,
      -1,-1,-1,  -1, 1,-1,   1, 1,-1,   1,-1,-1 >>

CubeNormals ==
    << 1, 0, 0,   1, 0, 0,   1, 0, 0,   1, 0, 0,
      -1, 0, 0,  -1, 0, 0,  -1, 0, 0,  -1, 0, 0,
       0, 1, 0,   0, 1, 0,   0, 1, 0,   0, 1, 0,
       0,-1, 0,   0,-1, 0,   0,-1, 0,   0,-1, 0,
       0, 0, 1,   0, 0, 1,   0, 0, 1,   0, 0, 1,
       0, 0,-1,   0, 0,-1,   0, 0,-1,   0, 0,-1 >>

CubeIndices ==
    << 0, 1, 2,     0, 2, 3,
       4, 5, 6,     4, 6, 7,
       8, 9, 10,    8, 10, 11,
       12, 13, 14,  12, 14, 15,
       16, 17, 18,  16, 18, 19,
       20, 21, 22,  20, 22, 23 >>

(***************************************************************************)
(* createVoxelLayer (Voxelizer.js:66-164).                                 *)
(* A layer definition is [ax, ay, w, h, d]: ax, ay = layerDef.uv.outer,    *)
(* w, h, d = layerDef.size.                                                *)
(***************************************************************************)
\* a faces table whose back face starts where the right face does
facesBackAtRight(def) ==
    << [u |-> def.ax + def.d,                 v |-> def.ay + def.d,
        width |-> def.w, height |-> def.h, scale |-> [z |-> 1]],
       [u |-> def.ax + def.d + def.w,         v |-> def.ay + def.d,
        width |-> def.w, height |-> def.h, scale |-> [z |-> 1]],
       [u |-> def.ax,                         v |-> def.ay + def.d,
        width |-> def.d, height |-> def.h, scale |-> [x |-> 1]],
       [u |-> def.ax + def.d + def.w,         v |-> def.ay + def.d,
        width |-> def.d, height |-> def.h, scale |-> [x |-> 1]],
       [u |-> def.ax + def.d,                 v |-> def.ay,
        width |-> def.w, height |-> def.d, scale |-> [y |-> 1]],
       [u |-> def.ax + def.d + def.w,         v |-> def.ay,
        width |-> def.w, height |-> def.d, scale |-> [y |-> 1]] >>

\* the faces table: atlas origin, loop extent and scale of each face; the
\* scale record has only the key the code gives it (half units: 0.5 -> 1)
faces(def) ==
    << [u |-> def.ax + def.d,                 v |-> def.ay + def.d,
        width |-> def.w, height |-> def.h, scale |-> [z |-> 1]],
       [u |-> def.ax + def.d + def.w + def.d, v |-> def.ay + def.d,
        width |-> def.w, height |-> def.h, scale |-> [z |-> 1]],
       [u |-> def.ax,                         v |-> def.ay + def.d,
        width |-> def.d, height |-> def.h, scale |-> [x |-> 1]],
       [u |-> def.ax + def.d + def.w,         v |-> def.ay + def.d,
        width |-> def.d, height |-> def.h, scale |-> [x |-> 1]],
       [u |-> def.ax + def.d,                 v |-> def.ay,
        width |-> def.w, height |-> def.d, scale |-> [y |-> 1]],
       [u |-> def.ax + def.d + def.w,         v |-> def.ay,
        width |-> def.w, height |-> def.d, scale |-> [y |-> 1]] >>

\* pos functions whose right face is not mirrored
facePosRightUnmirrored(def, fi, i, j) ==
    LET w == def.w
        h == def.h
        d == def.d
    IN CASE fi = 1 -> [x |-> 4 * i - 2 * w + 2,    y |-> 4 * j - 2 * h + 2, z |-> 2 * d + 1]
         [] fi = 2 -> [x |-> -(4 * i - 2 * w + 2), y |-> 4 * j - 2 * h + 2, z |-> -2 * d - 1]
         [] fi = 3 -> [x |-> -2 * w - 1, y |-> 4 * j - 2 * h + 2, z |-> 4 * i - 2 * d + 2]
         [] fi = 4 -> [x |-> 2 * w + 1,  y |-> 4 * j - 2 * h + 2, z |-> 4 * i - 2 * d + 2]
         [] fi = 5 -> [x |-> 4 * i - 2 * w + 2, y |-> 2 * h + 1,  z |-> -(4 * j - 2 * d + 2)]
         [] fi = 6 -> [x |-> 4 * i - 2 * w + 2, y |-> -2 * h - 1,
                       z |-> 4 * (d - 1 - j) - 2 * d + 2]

\* f.pos(i, j) of face number fi, in quarter units
facePos(def, fi, i, j) ==
    LET w == def.w
        h == def.h
        d == def.d
    IN CASE fi = 1 -> [x |-> 4 * i - 2 * w + 2,    y |-> 4 * j - 2 * h + 2, z |-> 2 * d + 1]
         [] fi = 2 -> [x |-> -(4 * i - 2 * w + 2), y |-> 4 * j - 2 * h + 2, z |-> -2 * d - 1]
         [] fi = 3 -> [x |-> -2 * w - 1, y |-> 4 * j - 2 * h + 2, z |-> 4 * i - 2 * d + 2]
         [] fi = 4 -> [x |-> 2 * w + 1,  y |-> 4 * j - 2 * h + 2, z |-> -(4 * i - 2 * d + 2)]
         [] fi = 5 -> [x |-> 4 * i - 2 * w + 2, y |-> 2 * h + 1,  z |-> -(4 * j - 2 * d + 2)]
         [] fi = 6 -> [x |-> 4 * i - 2 * w + 2, y |-> -2 * h - 1,
                       z |-> 4 * (d - 1 - j) - 2 * d + 2]

\* a scale lookup that ignores the face's flattening factor
scaleAlways1(scale, axis) == 2

\* f.scale?.x ?? 1  (half units: 1 -> 2)
scaleOr1(scale, axis) == IF axis \in DOMAIN scale THEN scale[axis] ELSE 2

\* the buffers of one createVoxelLayer call
EmptyBuffers ==
    [positions |-> <<>>, normals |-> <<>>, uvs |-> <<>>, indices |-> <<>>,
     vertexOffset |-> 0]

\* an addVoxel that appends the cube's index pattern without the running offset
addVoxelNoOffset(buf, cx, cy, cz, sx, sy, sz, u, v) ==
    [positions    |-> buf.positions \o [n \in 1..(3 * CUBE_VERTS) |-> CubeVertices[n]],
     normals      |-> buf.normals \o [n \in 1..(3 * CUBE_VERTS) |-> CubeNormals[n]],
     uvs          |-> buf.uvs \o [n \in 1..(2 * CUBE_VERTS) |-> 0],
     indices      |-> buf.indices \o CubeIndices,
     vertexOffset |-> buf.vertexOffset + 24]

\* an addVoxel whose V coordinate is not flipped: (v + 0.5) / 64
addVoxelNoFlip(buf, cx, cy, cz, sx, sy, sz, u, v) ==
    [positions    |-> buf.positions \o
                        [n \in 1..(3 * CUBE_VERTS) |->
                            CASE n % 3 = 1 -> CubeVertices[n] * sx + cx
                              [] n % 3 = 2 -> CubeVertices[n] * sy + cy
                              [] OTHER     -> CubeVertices[n] * sz + cz],
     normals      |-> buf.normals \o [n \in 1..(3 * CUBE_VERTS) |-> CubeNormals[n]],
     uvs          |-> buf.uvs \o [n \in 1..(2 * CUBE_VERTS) |->
                                     IF n % 2 = 1 THEN 2 * u + 1 ELSE 2 * v + 1],
     indices      |-> buf.indices \o
                        [n \in 1..Len(CubeIndices) |-> CubeIndices[n] + buf.vertexOffset],
     vertexOffset |-> buf.vertexOffset + 24]

\* addVoxel(cx, cy, cz, sx, sy, sz, u, v): 24 vertices, 36 indices
addVoxel(buf, cx, cy, cz, sx, sy, sz, u, v) ==
    LET uCoord == 2 * u + 1                 \* (u + 0.5) / 64     in 1/128
        vCoord == 2 * ATLAS - (2 * v + 1)   \* 1 - (v + 0.5) / 64 in 1/128
        pos == [n \in 1..(3 * CUBE_VERTS) |->
                   CASE n % 3 = 1 -> CubeVertices[n] * sx + cx
                     [] n % 3 = 2 -> CubeVertices[n] * sy + cy
                     [] OTHER     -> CubeVertices[n] * sz + cz]
        nrm == [n \in 1..(3 * CUBE_VERTS) |-> CubeNormals[n]]
        uv  == [n \in 1..(2 * CUBE_VERTS) |-> IF n % 2 = 1 THEN uCoord ELSE vCoord]
        idx == [n \in 1..Len(CubeIndices) |-> CubeIndices[n] + buf.vertexOffset]
    IN  [positions    |-> buf.positions \o pos,
         normals      |-> buf.normals \o nrm,
         uvs          |-> buf.uvs \o uv,
         indices      |-> buf.indices \o idx,
         vertexOffset |-> buf.vertexOffset + 24]

\* the index of the alpha byte the loop body reads for texel (i, j) of face f
alphaIndex(f, i, j) == ((f.v + j) * ATLAS + (f.u + i)) * 4 + 3

\* an occupancy test with the item path's threshold
layerOccupiedAbove10(imgData, f, i, j) ==
    JsGreater(getImageData(imgData, alphaIndex(f, i, j)), ITEM_ALPHA_MIN)

\* the occupancy test of the loop body
layerOccupied(imgData, f, i, j) ==
    JsGreater(getImageData(imgData, alphaIndex(f, i, j)), LAYER_ALPHA_MIN)

\* a loop body that hands row j to f.pos unflipped
layerBodyNoFlip(buf, imgData, def, fi, i, j) ==
    LET f == faces(def)[fi]
        u == f.u + i
        v == f.v + j
    IN  IF layerOccupied(imgData, f, i, j)
        THEN LET pos == facePos(def, fi, i, j)
                 sx == scaleOr1(f.scale, "x")
                 sy == scaleOr1(f.scale, "y")
                 sz == scaleOr1(f.scale, "z")
             IN  addVoxel(buf, pos.x, pos.y, pos.z, sx, sy, sz, u, v)
        ELSE buf

\* one iteration of the loop body for face number fi, texel (i, j)
layerBody(buf, imgData, def, fi, i, j) ==
    LET f == faces(def)[fi]
        u == f.u + i
        v == f.v + j
    IN  IF layerOccupied(imgData, f, i, j)
        THEN LET pos == facePos(def, fi, i, (f.height - 1) - j)
                 sx == scaleOr1(f.scale, "x")
                 sy == scaleOr1(f.scale, "y")
                 sz == scaleOr1(f.scale, "z")
             IN  addVoxel(buf, pos.x, pos.y, pos.z, sx, sy, sz, u, v)
        ELSE buf

\* the value createVoxelLayer returns for the final buffers
layerResult(buf) ==
    IF Len(buf.positions) = 0 THEN Null
    ELSE [kind |-> "geometry",
          position |-> buf.positions, normal |-> buf.normals,
          uv |-> buf.uvs, index |-> buf.indices]

\* The clone-and-merge createVoxelLayer (Voxelizer.js:175-222): a canvas of
\* its own, its own faces table (sx, sy where given, z halved for faces[0]
\* and faces[1]), one cloned box per occupied texel composed at
\* f.pos(i, (f.h-1)-j) with the face's scale, merged at the end; null for no
\* box.  Positions in quarter units, scales in half units, UVs over 128; the
\* boxes are kept in loop order.
createVoxelLayerMerged(image, def) ==
    LET imgData == drawImage(<<>>, image)
        w == def.w
        h == def.h
        d == def.d
        fs == << [u |-> def.ax + d,         v |-> def.ay + d, w |-> w, h |-> h],
                 [u |-> def.ax + d + w + d, v |-> def.ay + d, w |-> w, h |-> h],
                 [u |-> def.ax,             v |-> def.ay + d, w |-> d, h |-> h, sx |-> 1],
                 [u |-> def.ax + d + w,     v |-> def.ay + d, w |-> d, h |-> h, sx |-> 1],
                 [u |-> def.ax + d,         v |-> def.ay,     w |-> w, h |-> d, sy |-> 1],
                 [u |-> def.ax + d + w,     v |-> def.ay,     w |-> w, h |-> d, sy |-> 1] >>
        pos(fi, i, j) ==
            CASE fi = 1 -> <<4 * i - 2 * w + 2, 4 * j - 2 * h + 2, 2 * d + 1>>
              [] fi = 2 -> <<-(4 * i - 2 * w + 2), 4 * j - 2 * h + 2, -2 * d - 1>>
              [] fi = 3 -> <<-2 * w - 1, 4 * j - 2 * h + 2, 4 * i - 2 * d + 2>>
              [] fi = 4 -> <<2 * w + 1, 4 * j - 2 * h + 2, -(4 * i - 2 * d + 2)>>
              [] fi = 5 -> <<4 * i - 2 * w + 2, 2 * h + 1, -(4 * j - 2 * d + 2)>>
              [] fi = 6 -> <<4 * i - 2 * w + 2, -2 * h - 1, 4 * (d - 1 - j) - 2 * d + 2>>
        or1(f, k) == IF k \in DOMAIN f THEN f[k] ELSE 2
        \* for i: for j: the texels of face fi in loop order
        texels(fi) == [n \in 1..(fs[fi].w * fs[fi].h) |->
                          [f |-> fi, i |-> (n - 1) \div fs[fi].h, j |-> (n - 1) % fs[fi].h]]
        occupied(t) ==
            JsGreater(getImageData(imgData,
                                   ((fs[t.f].v + t.j) * 64 + (fs[t.f].u + t.i)) * 4 + 3), 0)
        box(t) ==
            [c     |-> pos(t.f, t.i, (fs[t.f].h - 1) - t.j),
             scale |-> <<or1(fs[t.f], "sx"), or1(fs[t.f], "sy"),
                         IF t.f \in {1, 2} THEN 1 ELSE or1(fs[t.f], "sz")>>,
             uv    |-> <<2 * (fs[t.f].u + t.i) + 1, 128 - (2 * (fs[t.f].v + t.j) + 1)>>]
        hits == SelectSeq(texels(1) \o texels(2) \o texels(3) \o texels(4)
                            \o texels(5) \o texels(6), occupied)
    IN  IF Len(hits) > 0
        THEN [kind |-> "geometry", boxes |-> [n \in 1..Len(hits) |-> box(hits[n])]]
        ELSE Null

(***************************************************************************)
(* State of one voxelizer call.                                            *)
(***************************************************************************)
VARIABLES
    vmode,        \* "layer" (createVoxelLayer) | "item" (generateMesh) | "idle"
    vtex,         \* the texture passed in
    vdef,         \* the layer definition (layer mode)
    vpc,          \* "begin" | "loop" | "return" | "done"
    cachedCanvas, \* the module's scratch canvas: whether created, what is drawn on it
    vprior,       \* history: the scratch canvas as the call found it
    vf, vi, vj,   \* loop position: face number, i, j (layer); vj = y, vi = x (item)
    vbuf,         \* positions / normals / uvs / indices / vertexOffset
    vgeos,        \* geometries[] of generateMesh
    vresult,      \* the returned value once vpc = "done"
    vsampled      \* history: the texels tested so far, in order

voxVars ==
    <<vmode, vtex, vdef, vpc, cachedCanvas, vprior, vf, vi, vj, vbuf, vgeos, vresult, vsampled>>

\* the viewer's state: the object heap, the SkinModel fields, the plugins
VARIABLES
    heap,         \* id -> object
    nextId,       \* the next free id
    skinModel,    \* the fields of the SkinModel
    items,        \* ItemsPlugin.items
    loading,      \* item textures being loaded: the pending createFromURL promises
    fx,           \* the EffectsPlugin and its composer
    editor,       \* the EditorPlugin, its transform control and its history
    last,         \* history: the last call or callback, its argument and outcome
    made,         \* history: the ids each build / setCape call allocated
    calls         \* number of calls made so far

viewVars == <<heap, nextId, skinModel, items, loading, fx, editor, last, made, calls>>

\* the EventManager: one event name, its listener Set in insertion order
VARIABLES
    listeners,    \* the Set of the event: slots in insertion order, deleted ones marked
    invoked,      \* history: how often the callback registered in each slot has run
    emitted       \* number of top-level emit calls so far

eventVars == <<listeners, invoked, emitted>>

\* the SkinViewer's render loop and what drives it
VARIABLES
    isDisposed,   \* SkinViewer.isDisposed
    isVisible,    \* SkinViewer.isVisible
    needsRender,  \* SkinViewer.needsRender
    renderPaused, \* config.renderPaused
    pending,      \* number of requestAnimationFrame callbacks for animate not yet run
    observed,     \* the IntersectionObserver: "none", "in", "out" last reported, "disconnected"
    requested,    \* history: a render was asked for and no frame was rendered since
    lastRequest,  \* history: what asked last
    frame         \* history: the run of animate the last step made, if it made one

loopVars ==
    <<isDisposed, isVisible, needsRender, renderPaused, pending, observed,
      requested, lastRequest, frame>>

auxVars == <<eventVars, loopVars>>

vars == <<voxVars, viewVars, auxVars>>

Pending == [kind |-> "pending"]
NoDef == [ax |-> 0, ay |-> 0, w |-> 0, h |-> 0, d |-> 0]

\* layer definitions: small boxes at anchors inside and at the edge of the
\* atlas, and the head overlay of SkinModel.build
SmallDefs ==
    { [ax |-> a[1], ay |-> a[2], w |-> w, h |-> h, d |-> d] :
        a \in { <<0, 0>>, <<40, 32>>, <<62, 0>>, <<0, 63>> },
        w \in 1..MaxDim, h \in 1..MaxDim, d \in 1..MaxDim }

HeadOuterDef == [ax |-> 32, ay |-> 0, w |-> 8, h |-> 8, d |-> 8]

SkinTex(pat) == [w |-> 64, h |-> 64, pat |-> pat]

LayerInputs ==
    ({ SkinTex(p) : p \in {"blank", "opaque", "checker", "faint", "mixed"} } \X SmallDefs)
    \cup { <<SkinTex("opaque"), HeadOuterDef>> }

\* the scratch canvas before a call: not yet created, or holding the
\* texture of the call before
NoCanvas == [created |-> FALSE, drawn |-> <<>>]

PriorCanvases ==
    {NoCanvas}
    \cup { [created |-> TRUE, drawn |-> <<SkinTex(p)>>] : p \in {"opaque", "checker"} }

InitLayer ==
    /\ vmode = "layer"
    /\ \E in \in LayerInputs : vtex = in[1] /\ vdef = in[2]
    /\ cachedCanvas \in PriorCanvases
    /\ vprior = cachedCanvas
    /\ vpc = "begin"
    /\ vf = 1 /\ vi = 0 /\ vj = 0
    /\ vbuf = EmptyBuffers
    /\ vgeos = <<>>
    /\ vresult = Pending
    /\ vsampled = <<>>

\* const imgData = getImageData(texture.image): the canvas is created on
\* the first call, then cleared, and the image is drawn
LayerBegin ==
    /\ vmode = "layer" /\ vpc = "begin"
    /\ cachedCanvas' = [created |-> TRUE, drawn |-> redraw(cachedCanvas.drawn, vtex)]
    /\ vpc' = "loop"
    /\ UNCHANGED <<vmode, vtex, vdef, vprior, vf, vi, vj, vbuf, vgeos, vresult, vsampled>>
    /\ UNCHANGED <<viewVars, auxVars>>

\* faces.forEach(f => for i: for j: ...) : one iteration of the innermost body
LayerStep ==
    /\ vmode = "layer" /\ vpc = "loop"
    /\ LET f == faces(vdef)[vf]
       IN  /\ vbuf' = layerBody(vbuf, cachedCanvas.drawn, vdef, vf, vi, vj)
           /\ vsampled' = Append(vsampled,
                              [f |-> vf, i |-> vi, j |-> vj,
                               u |-> f.u + vi, v |-> f.v + vj,
                               k |-> alphaIndex(f, vi, vj),
                               hit |-> layerOccupied(cachedCanvas.drawn, f, vi, vj)])
           /\ IF vj + 1 < f.height
              THEN vj' = vj + 1 /\ UNCHANGED <<vi, vf, vpc>>
              ELSE IF vi + 1 < f.width
              THEN vj' = 0 /\ vi' = vi + 1 /\ UNCHANGED <<vf, vpc>>
              ELSE IF vf < 6
              THEN vj' = 0 /\ vi' = 0 /\ vf' = vf + 1 /\ UNCHANGED vpc
              ELSE vpc' = "return" /\ UNCHANGED <<vf, vi, vj>>
    /\ UNCHANGED <<vmode, vtex, vdef, cachedCanvas, vprior, vgeos, vresult>>
    /\ UNCHANGED <<viewVars, auxVars>>

\* if (positions.length === 0) return null; ... return geometry
LayerReturn ==
    /\ vmode = "layer" /\ vpc = "return"
    /\ vresult' = layerResult(vbuf)
    /\ vpc' = "done"
    /\ UNCHANGED <<vmode, vtex, vdef, cachedCanvas, vprior, vf, vi, vj, vbuf, vgeos, vsampled>>
    /\ UNCHANGED <<viewVars, auxVars>>

(***************************************************************************)
(* ItemFactory.generateMesh (unnamed/part_000:34-82).                      *)
(* A cube geometry is [c, uv, nv, ni]: centre in half units, the UV all    *)
(* its vertices carry as numerators over <<2W, 2H>>, vertex and index      *)
(* count of BoxGeometry(1,1,1).                                            *)
(***************************************************************************)
\* data[k] of ctx.getImageData(0, 0, img.width, img.height)
itemData(tex, k) ==
    IF k < 0 \/ k >= tex.w * tex.h * 4 THEN Undefined
    ELSE LET p == k \div 4
         IN  IF k % 4 = 3 THEN ImageAlpha(tex, p % tex.w, p \div tex.w) ELSE 255

\* an item occupancy test with the skin-layer threshold
itemOccupiedAbove0(tex, x, y) ==
    JsGreater(itemData(tex, (y * tex.w + x) * 4 + 3), LAYER_ALPHA_MIN)

\* the occupancy test: data[(y * img.width + x) * 4 + 3] > 10
itemOccupied(tex, x, y) ==
    JsGreater(itemData(tex, (y * tex.w + x) * 4 + 3), ITEM_ALPHA_MIN)

\* a loop body that places row y at height y - H/2, without the vertical flip
itemBodyNoFlip(geos, tex, x, y) ==
    IF itemOccupied(tex, x, y)
    THEN Append(geos,
                [c  |-> <<2 * x - tex.w, 2 * y - tex.h, 0>>,
                 uv |-> <<2 * x + 1, 2 * tex.h - (2 * y + 1)>>,
                 nv |-> CUBE_VERTS, ni |-> CUBE_INDICES])
    ELSE geos

\* a loop body that emits a cube whatever the alpha
itemBodyAlways(geos, tex, x, y) ==
    Append(geos,
           [c  |-> <<2 * x - tex.w, 2 * (tex.h - 1 - y) - tex.h, 0>>,
            uv |-> <<2 * x + 1, 2 * tex.h - (2 * y + 1)>>,
            nv |-> CUBE_VERTS, ni |-> CUBE_INDICES])

\* one iteration of the loop body for texel (x, y)
itemBody(geos, tex, x, y) ==
    IF itemOccupied(tex, x, y)
    THEN Append(geos,
                [c  |-> <<2 * x - tex.w, 2 * (tex.h - 1 - y) - tex.h, 0>>,
                 uv |-> <<2 * x + 1, 2 * tex.h - (2 * y + 1)>>,
                 nv |-> CUBE_VERTS, ni |-> CUBE_INDICES])
    ELSE geos

Max(a, b) == IF a >= b THEN a ELSE b
SetMin(S) == CHOOSE m \in S : \A n \in S : m <= n
SetMax(S) == CHOOSE m \in S : \A n \in S : m >= n

\* merged.center(): the bounding box of the unit cubes is moved to the origin
centerGeometry(geos) ==
    LET off(a) == LET cs == { geos[n].c[a] : n \in 1..Len(geos) }
                  IN  ((SetMin(cs) - 1) + (SetMax(cs) + 1)) \div 2
    IN  [n \in 1..Len(geos) |->
            [geos[n] EXCEPT !.c = <<@[1] - off(1), @[2] - off(2), @[3] - off(3)>>]]

RECURSIVE SumField(_, _, _)
SumField(geos, fld, n) ==
    IF n = 0 THEN 0 ELSE geos[n][fld] + SumField(geos, fld, n - 1)

\* the tail of generateMesh: null for no geometry, else merge, centre, scale
itemResult(geos, tex) ==
    IF Len(geos) = 0 THEN Null
    ELSE [kind |-> "mesh",
          cubes |-> centerGeometry(geos),
          nVerts |-> SumField(geos, "nv", Len(geos)),
          nIndices |-> SumField(geos, "ni", Len(geos)),
          scale |-> <<16, Max(tex.w, tex.h)>>,
          map |-> tex]

Sprites ==
    { [w |-> w, h |-> h, pat |-> p] :
        w \in 1..MaxSprite, h \in 1..MaxSprite,
        p \in {"blank", "opaque", "checker", "faint", "mixed"} }

InitItem ==
    /\ vmode = "item"
    /\ vtex \in Sprites
    /\ vdef = NoDef
    /\ cachedCanvas = NoCanvas /\ vprior = NoCanvas
    /\ vpc = "loop"
    /\ vf = 0 /\ vi = 0 /\ vj = 0
    /\ vbuf = EmptyBuffers
    /\ vgeos = <<>>
    /\ vresult = Pending
    /\ vsampled = <<>>

\* for y: for x: ... : one iteration of the innermost body (vj = y, vi = x)
ItemStep ==
    /\ vmode = "item" /\ vpc = "loop"
    /\ vgeos' = itemBody(vgeos, vtex, vi, vj)
    /\ vsampled' = Append(vsampled,
                       [f |-> 0, i |-> vi, j |-> vj, u |-> vi, v |-> vj,
                        k |-> (vj * vtex.w + vi) * 4 + 3,
                        hit |-> itemOccupied(vtex, vi, vj)])
    /\ IF vi + 1 < vtex.w
       THEN vi' = vi + 1 /\ UNCHANGED <<vj, vpc>>
       ELSE IF vj + 1 < vtex.h
       THEN vi' = 0 /\ vj' = vj + 1 /\ UNCHANGED vpc
       ELSE vpc' = "return" /\ UNCHANGED <<vi, vj>>
    /\ UNCHANGED <<vmode, vtex, vdef, cachedCanvas, vprior, vf, vbuf, vresult>>
    /\ UNCHANGED <<viewVars, auxVars>>

\* if (geometries.length === 0) return null; merge, center, scale, return mesh
ItemReturn ==
    /\ vmode = "item" /\ vpc = "return"
    /\ vresult' = itemResult(vgeos, vtex)
    /\ vpc' = "done"
    /\ UNCHANGED <<vmode, vtex, vdef, cachedCanvas, vprior, vf, vi, vj, vbuf, vgeos, vsampled>>
    /\ UNCHANGED <<viewVars, auxVars>>

(***************************************************************************)
(* The object heap.  Every three.js object the code creates is a heap      *)
(* entry with a fresh id (0 is null): Object3D nodes (Scene, Group, Mesh)  *)
(* with parent/children, and the resources (Geometry, Material, Texture)   *)
(* with a disposed flag.  Transform components are in thousandths.         *)
(* A world w is the record [heap, next, sm]: the heap, the next free id    *)
(* and the fields of the SkinModel instance.                               *)
(***************************************************************************)
\* SkinModel.LAYERS_COUNT / ItemsPlugin.LAYERS_COUNT
LAYERS_COUNT == 20

EmptyData == <<>>

Object3D(kind, name) ==
    [kind |-> kind, name |-> name, parent |-> 0, children |-> <<>>,
     geometry |-> 0, material |-> 0,
     position |-> <<0, 0, 0>>, rotation |-> <<0, 0, 0>>,
     scale |-> <<1000, 1000, 1000>>, userData |-> EmptyData]

NewGroup(name) == Object3D("Group", name)

NewMesh(geo, mat) == [Object3D("Mesh", "") EXCEPT !.geometry = geo, !.material = mat]

NewGeometry(src, nVerts, nIndices) ==
    [kind |-> "Geometry", src |-> src, nVerts |-> nVerts, nIndices |-> nIndices,
     sizeY |-> 0, uv |-> <<>>, disposed |-> FALSE]

\* new THREE.MeshStandardMaterial({ map: texture, ... })
NewStandardMaterial(map) ==
    [kind |-> "Material", type |-> "MeshStandardMaterial", map |-> map,
     disposed |-> FALSE]

NewTexture(img) == [kind |-> "Texture", image |-> img, disposed |-> FALSE]

\* createGlowMaterial(partHeight) (GlowMaterial.js:38-56): a ShaderMaterial
\* with its own uniforms object; opacity is a fraction <<num, den>>,
\* gradientLimit in thousandths, thickness in 1/4000
createGlowMaterial(partHeight) ==
    [kind |-> "Material", type |-> "ShaderMaterial", map |-> 0,
     uniforms |-> [opacity |-> <<0, 1>>, gradientLimit |-> 800,
                   thickness |-> 0, partHeight |-> partHeight],
     polygonOffsetFactor |-> 1000,
     disposed |-> FALSE]

\* the heap with a new object stored under the next free id
Alloc(w, obj) == [w EXCEPT !.heap = (w.next :> obj) @@ @, !.next = @ + 1]

SeqRemove(s, x) == SelectSeq(s, LAMBDA y : y # x)

\* Object3D.remove(child)
Detach(hp, p, c) ==
    IF c \in { hp[p].children[n] : n \in 1..Len(hp[p].children) }
    THEN [hp EXCEPT ![p].children = SeqRemove(@, c), ![c].parent = 0]
    ELSE hp

\* Object3D.add(child): a child that has a parent is removed from it first
Attach(hp, p, c) ==
    LET h == IF hp[c].parent # 0 THEN Detach(hp, hp[c].parent, c) ELSE hp
    IN  [h EXCEPT ![p].children = Append(@, c), ![c].parent = p]

\* Object3D.clear(): every child is removed
ClearChildren(hp, p) ==
    [id \in DOMAIN hp |->
        IF id = p THEN [hp[id] EXCEPT !.children = <<>>]
        ELSE IF hp[id].kind \in {"Group", "Mesh", "Scene"} /\ hp[id].parent = p
        THEN [hp[id] EXCEPT !.parent = 0]
        ELSE hp[id]]

\* Object3D.traverse: the node and its descendants, depth first
RECURSIVE Traverse(_, _)
RECURSIVE TraverseAll(_, _, _)
Traverse(hp, id) == <<id>> \o TraverseAll(hp, hp[id].children, 1)
TraverseAll(hp, kids, n) ==
    IF n > Len(kids) THEN <<>>
    ELSE Traverse(hp, kids[n]) \o TraverseAll(hp, kids, n + 1)

Range(s) == { s[n] : n \in 1..Len(s) }

\* a disposeObjectTree that releases nothing
disposeNothing(hp, object) == hp

\* disposeObjectTree(object) (ThreeUtils.js:6-27): the geometry, the
\* material and every texture a material property holds, of every node
disposeObjectTree(hp, object) ==
    IF object = 0 THEN hp
    ELSE LET nodes == Range(Traverse(hp, object))
             geos  == { hp[n].geometry : n \in nodes } \ {0}
             mats  == { hp[n].material : n \in nodes } \ {0}
             texs  == { hp[m].map : m \in mats } \ {0}
         IN  [id \in DOMAIN hp |->
                 IF id \in geos \cup mats \cup texs
                 THEN [hp[id] EXCEPT !.disposed = TRUE]
                 ELSE hp[id]]

(***************************************************************************)
(* What createVoxelLayer returns, with the buffers reduced to their sizes: *)
(* the loops of Voxelizer.js:137-155 counted instead of stored.            *)
(***************************************************************************)
layerSlabCount(imgData, def) ==
    LET fs == faces(def)
    IN  Cardinality(UNION { { <<fi, c[1], c[2]>> :
                                c \in { t \in (0..(fs[fi].width - 1)) \X (0..(fs[fi].height - 1)) :
                                          layerOccupied(imgData, fs[fi], t[1], t[2]) } }
                            : fi \in 1..6 })

\* the end of createVoxelLayer (Voxelizer.js:155-163) after n slabs: null when
\* nothing was emitted, else the geometry built from the buffers
layerGeometry(n) ==
    IF n = 0 THEN Null
    ELSE NewGeometry("voxel", CUBE_VERTS * n, CUBE_INDICES * n)

\* a createVoxelLayer that returns an empty geometry where the code returns null
createVoxelLayerNeverNull(tex, def) == NewGeometry("voxel", 0, 0)

\* createVoxelLayer(skinTexture, def) (Voxelizer.js:66-164) as createBodyPart
\* sees it: null, or an indexed geometry of 24 vertices and 36 indices per slab.
\* The scratch canvas is redrawn at the start of every call, so what it held
\* before is not part of the viewer's state.
createVoxelLayer(tex, def) ==
    layerGeometry(layerSlabCount(redraw(<<>>, tex), [ax |-> def.uv.outer.x, ay |-> def.uv.outer.y,
                                       w |-> def.size.w, h |-> def.size.h,
                                       d |-> def.size.d]))

\* geometry.clone(): a new, undisposed geometry with the same buffers
CloneGeometry(hp, g) == [hp[g] EXCEPT !.disposed = FALSE]

\* new THREE.BoxGeometry(w, h, d): 24 vertices, 36 indices
BoxGeometry == NewGeometry("box", CUBE_VERTS, CUBE_INDICES)

\* getUV(x, y, w, h) (SkinUtils.js:4-8): the rectangle's corners over the
\* image size the function fixes, imgW = imgH = 64; numerators, with the
\* denominators kept beside them
getUV(x, y, w, h) ==
    LET imgW == 64
        imgH == 64
    IN  [u0 |-> x, u1 |-> x + w, v0 |-> imgH - y - h, v1 |-> imgH - y,
         imgW |-> imgW, imgH |-> imgH]

\* map(idx, uX, uY, uW, uH, flipX, flipY) of applySkinUVs: the four UV pairs
\* of one face, vertices 4*idx .. 4*idx+3
mapFace(uX, uY, uW, uH, flipX, flipY) ==
    LET uv == getUV(uX, uY, uW, uH)
        u0 == IF flipX THEN uv.u1 ELSE uv.u0
        u1 == IF flipX THEN uv.u0 ELSE uv.u1
        v0 == IF flipY THEN uv.v1 ELSE uv.v0
        v1 == IF flipY THEN uv.v0 ELSE uv.v1
    IN  << <<u0, v1>>, <<u1, v1>>, <<u0, v0>>, <<u1, v0>> >>

\* applySkinUVs(geometry, x, y, w, h, d) (SkinUtils.js:13-50): the uv
\* attribute it writes, faces in the order right, left, top, bottom, front,
\* back.  The function has six parameters: further arguments of a call are
\* bound to nothing.
applySkinUVs(x, y, w, h, d) ==
    [den |-> <<getUV(0, 0, 0, 0).imgW, getUV(0, 0, 0, 0).imgH>>,
     xy  |-> mapFace(x + d + w, y + d, d, h, FALSE, FALSE)
             \o mapFace(x, y + d, d, h, FALSE, FALSE)
             \o mapFace(x + d, y, w, d, FALSE, FALSE)
             \o mapFace(x + d + w, y, w, d, FALSE, TRUE)
             \o mapFace(x + d, y + d, w, h, FALSE, FALSE)
             \o mapFace(x + d + w + d, y + d, w, h, FALSE, FALSE)]

(***************************************************************************)
(* SkinModel                                                               *)
(***************************************************************************)
\* the glow loop of createBodyPart (SkinModel.js:75-89): iteration i creates
\* glowMat and then layerMesh, so their ids are next + 2i and next + 2i + 1
partLayers(w, baseGlowGeo, partHeight, meshGroup) ==
    LET glowMat(i)   == w.next + 2 * i
        layerMesh(i) == w.next + 2 * i + 1
        created(id)  ==
            LET i == (id - w.next) \div 2
            IN  IF id = glowMat(i)
                THEN [createGlowMaterial(partHeight) EXCEPT
                        !.uniforms.thickness = 0,
                        !.uniforms.opacity = <<0, 1>>]
                ELSE [NewMesh(baseGlowGeo, glowMat(i)) EXCEPT
                        !.parent = meshGroup,
                        !.userData = [layerIndex |-> i, isGlow |-> TRUE,
                                      glowMat |-> glowMat(i)]]
        partLayers_ == [n \in 1..LAYERS_COUNT |-> layerMesh(n - 1)]
    IN  [w |-> [w EXCEPT
                  !.heap = [id \in w.next..(w.next + 2 * LAYERS_COUNT - 1) |-> created(id)]
                           @@ [@ EXCEPT ![meshGroup].children = @ \o partLayers_],
                  !.next = @ + 2 * LAYERS_COUNT],
         layers |-> partLayers_]

\* createBodyPart(...) (SkinModel.js:28-95).  Objects get their ids in the
\* order the code creates them; the outer-layer objects exist only when
\* createVoxelLayer returned a geometry.
\* voxel is what createVoxelLayer returned at line 53, or Null when
\* renderVoxels is false.
assembleBodyPart(w, texture, coords, size, pivotPos, meshOffset, name, voxel) ==
    LET pivotGroup == w.next
        meshGroup  == w.next + 1
        \* 1. inner layer
        innerGeo   == w.next + 2
        innerMat   == w.next + 3
        innerMesh  == w.next + 4
        \* 2. outer layer
        hasVoxels == voxel # Null
        voxelGeo   == IF hasVoxels THEN w.next + 5 ELSE 0
        outerMat   == IF hasVoxels THEN w.next + 6 ELSE 0
        voxelMesh  == IF hasVoxels THEN w.next + 7 ELSE 0
        \* 3. glow shells: glowParts and their merge
        innerClone == IF hasVoxels THEN w.next + 8 ELSE w.next + 5
        voxelClone == IF hasVoxels THEN w.next + 9 ELSE 0
        baseGlowGeo == IF hasVoxels THEN w.next + 10 ELSE w.next + 6
        created(id) ==
            CASE id = pivotGroup -> [NewGroup(name) EXCEPT !.position = pivotPos,
                                                          !.children = <<meshGroup>>]
              [] id = meshGroup  -> [NewGroup("") EXCEPT
                                       !.position = meshOffset,
                                       !.parent = pivotGroup,
                                       !.children = IF hasVoxels
                                                    THEN <<innerMesh, voxelMesh>>
                                                    ELSE <<innerMesh>>]
              [] id = innerGeo   ->
                    [BoxGeometry EXCEPT
                       !.uv = applySkinUVs(coords.inner.x, coords.inner.y,
                                           size.w, size.h, size.d)]
              [] id = innerMat   -> NewStandardMaterial(texture)
              [] id = innerMesh  -> [NewMesh(innerGeo, innerMat) EXCEPT
                                       !.parent = meshGroup,
                                       !.userData = [originalMat |-> innerMat]]
              [] id = voxelGeo   -> voxel
              [] id = outerMat   -> NewStandardMaterial(texture)
              [] id = voxelMesh  -> [NewMesh(voxelGeo, outerMat) EXCEPT
                                       !.parent = meshGroup,
                                       !.userData = [originalMat |-> outerMat]]
              [] id = innerClone ->
                    [BoxGeometry EXCEPT
                       !.uv = applySkinUVs(coords.inner.x, coords.inner.y,
                                           size.w, size.h, size.d)]
              [] id = voxelClone -> voxel
              [] id = baseGlowGeo ->
                    NewGeometry("merged",
                                BoxGeometry.nVerts + (IF hasVoxels THEN voxel.nVerts ELSE 0),
                                BoxGeometry.nIndices
                                  + (IF hasVoxels THEN voxel.nIndices ELSE 0))
        w1 == [w EXCEPT
                 !.heap = [id \in w.next..baseGlowGeo |-> created(id)] @@ @,
                 !.next = baseGlowGeo + 1,
                 !.sm.defaultPositions = (name :> pivotPos) @@ @,
                 !.sm.bodyMeshes = IF hasVoxels THEN @ \o <<innerMesh, voxelMesh>>
                                   ELSE Append(@, innerMesh)]
        r  == partLayers(w1, baseGlowGeo, size.h, meshGroup)
    IN  [w |-> [r.w EXCEPT !.sm.glowMeshes = Append(@, r.layers)],
         part |-> pivotGroup]

createBodyPart(w, texture, coords, size, pivotPos, meshOffset, name, renderVoxels) ==
    assembleBodyPart(w, texture, coords, size, pivotPos, meshOffset, name,
                     IF renderVoxels
                     THEN createVoxelLayer(w.heap[texture].image,
                                           [uv |-> coords, size |-> size])
                     ELSE Null)

\* the glow loop of setCape (SkinModel.js:232-251)
capeLayers(w, shellGeo, partHeight, pivotGroup, meshOffset) ==
    LET glowMat(i)   == w.next + 2 * i
        layerMesh(i) == w.next + 2 * i + 1
        created(id)  ==
            LET i == (id - w.next) \div 2
            IN  IF id = glowMat(i)
                THEN [createGlowMaterial(partHeight) EXCEPT
                        !.uniforms.thickness = 0,
                        !.uniforms.opacity = <<0, 1>>,
                        !.polygonOffsetFactor = i * 100]
                ELSE [NewMesh(shellGeo, glowMat(i)) EXCEPT
                        !.parent = pivotGroup,
                        !.position = meshOffset,
                        !.rotation = <<0, 3142, 0>>,
                        !.userData = [layerIndex |-> i, isGlow |-> TRUE,
                                      glowMat |-> glowMat(i)]]
        capeLayers_ == [n \in 1..LAYERS_COUNT |-> layerMesh(n - 1)]
    IN  [w |-> [w EXCEPT
                  !.heap = [id \in w.next..(w.next + 2 * LAYERS_COUNT - 1) |-> created(id)]
                           @@ [@ EXCEPT ![pivotGroup].children = @ \o capeLayers_],
                  !.next = @ + 2 * LAYERS_COUNT],
         layers |-> capeLayers_]

HasPart(sm, name) == name \in DOMAIN sm.parts

DeletePart(parts, name) == [n \in (DOMAIN parts) \ {name} |-> parts[n]]

HasData(obj, key) == key \in DOMAIN obj.userData

\* the second half of setCape (SkinModel.js:199-263): the new cape, its 20
\* shell layers, and the previous cape's transform when there was one
createCape(w, texture, prevTransform) ==
    LET size       == [w |-> 10, h |-> 16, d |-> 1]
        pivotPos   == <<0, 0, -3000>>
        meshOffset == <<0, -8000, 600>>
        pivotGroup == w.next
        geo        == w.next + 1
        mat        == w.next + 2
        mainMesh   == w.next + 3
        shellGeo   == w.next + 4
        created(id) ==
            CASE id = pivotGroup -> [NewGroup("cape") EXCEPT
                                       !.position = pivotPos,
                                       !.rotation = <<200, 0, 0>>,
                                       !.children = <<mainMesh>>]
              \* applySkinUVs(geo, 0, 0, 10, 16, 1, 64, 32)
              [] id = geo        -> [BoxGeometry EXCEPT
                                       !.uv = applySkinUVs(0, 0, 10, 16, 1)]
              [] id = mat        -> NewStandardMaterial(texture)
              [] id = mainMesh   -> [NewMesh(geo, mat) EXCEPT
                                       !.parent = pivotGroup,
                                       !.position = meshOffset,
                                       !.rotation = <<0, 3142, 0>>,
                                       !.userData = [originalMat |-> mat]]
              [] id = shellGeo   -> BoxGeometry
        w1  == [w EXCEPT
                  !.heap = [id \in w.next..shellGeo |-> created(id)] @@ @,
                  !.next = shellGeo + 1,
                  !.sm.defaultPositions = ("cape" :> pivotPos) @@ @,
                  !.sm.bodyMeshes = Append(@, mainMesh)]
        r   == capeLayers(w1, shellGeo, size.h, pivotGroup, meshOffset)
        w2  == [r.w EXCEPT
                  !.sm.glowMeshes = Append(@, r.layers),
                  !.heap[pivotGroup].userData = [glowLayers |-> r.layers]]
        w3  == IF prevTransform # Null
               THEN [w2 EXCEPT !.heap[pivotGroup].position = prevTransform.pos,
                               !.heap[pivotGroup].rotation = prevTransform.rot,
                               !.heap[pivotGroup].scale = prevTransform.scl]
               ELSE w2
    IN  [w3 EXCEPT !.heap = Attach(@, w.sm.playerGroup, pivotGroup),
                   !.sm.parts = ("cape" :> pivotGroup) @@ @]

\* setCape(texture) (SkinModel.js:175-264); texture 0 is null
setCape(w, texture) ==
    IF w.sm.playerGroup = 0 THEN w
    ELSE
    LET old  == IF HasPart(w.sm, "cape") THEN w.sm.parts["cape"] ELSE 0
        prevTransform ==
            IF old # 0
            THEN [pos |-> w.heap[old].position, rot |-> w.heap[old].rotation,
                  scl |-> w.heap[old].scale]
            ELSE Null
        wa   == IF old # 0
                THEN [w EXCEPT
                        !.sm.glowMeshes =
                            IF HasData(w.heap[old], "glowLayers")
                            THEN SelectSeq(@, LAMBDA layers :
                                              layers # w.heap[old].userData.glowLayers)
                            ELSE @,
                        !.heap = disposeObjectTree(Detach(@, w.sm.playerGroup, old), old),
                        !.sm.parts = DeletePart(@, "cape")]
                ELSE w
    IN  IF texture = 0 THEN wa
        ELSE createCape(wa, texture, prevTransform)

\* the defs table of build (SkinModel.js:134-144), in Object.entries order
PartDefs(isSlim) ==
    LET armW   == IF isSlim THEN 3 ELSE 4
        armOff == IF isSlim THEN 5000 ELSE 6000
        D(name, ix, iy, ox, oy, sw, sh, sd, pivotPos, meshOffset) ==
            [name |-> name,
             uv |-> [inner |-> [x |-> ix, y |-> iy], outer |-> [x |-> ox, y |-> oy]],
             size |-> [w |-> sw, h |-> sh, d |-> sd],
             pivotPos |-> pivotPos, meshOffset |-> meshOffset]
    IN  << D("head", 0, 0, 32, 0, 8, 8, 8, <<0, 0, 0>>, <<0, 4000, 0>>),
           D("body", 16, 16, 16, 32, 8, 12, 4, <<0, 0, 0>>, <<0, -6000, 0>>),
           D("rightArm", 40, 16, 40, 32, armW, 12, 4, <<-armOff, -2000, 0>>, <<0, -4000, 0>>),
           D("leftArm", 32, 48, 48, 48, armW, 12, 4, <<armOff, -2000, 0>>, <<0, -4000, 0>>),
           D("rightLeg", 0, 16, 0, 32, 4, 12, 4, <<-1900, -12000, 0>>, <<0, -6000, 0>>),
           D("leftLeg", 16, 48, 0, 48, 4, 12, 4, <<1900, -12000, 0>>, <<0, -6000, 0>>) >>

\* for (const [name, def] of Object.entries(defs)) (SkinModel.js:146-158)
RECURSIVE buildParts(_, _, _, _, _)
buildParts(w, texture, defs, n, renderVoxels) ==
    IF n > Len(defs) THEN w
    ELSE LET def == defs[n]
             r   == createBodyPart(w, texture, def.uv, def.size, def.pivotPos,
                                   def.meshOffset, def.name, renderVoxels)
             w1  == [r.w EXCEPT !.sm.parts = (def.name :> r.part) @@ @,
                                !.heap = Attach(@, w.sm.playerGroup, r.part)]
         IN  buildParts(w1, texture, defs, n + 1, renderVoxels)

\* children.find(c => c.isMesh)
FirstMesh(hp, id) ==
    LET ms == SelectSeq(hp[id].children, LAMBDA c : hp[c].kind = "Mesh")
    IN  IF ms = <<>> THEN 0 ELSE ms[1]

\* the end of build (SkinModel.js:163-167): the restored cape gets the
\* transform it had before the rebuild
restoreCapeTransform(w, capeBackup) ==
    IF HasPart(w.sm, "cape")
    THEN [w EXCEPT !.heap[w.sm.parts["cape"]].position = capeBackup.position,
                   !.heap[w.sm.parts["cape"]].rotation = capeBackup.rotation,
                   !.heap[w.sm.parts["cape"]].scale = capeBackup.scale]
    ELSE w

\* build(texture, isSlim, renderVoxels) (SkinModel.js:103-169)
build(w, texture, isSlim, renderVoxels) ==
    IF w.sm.playerGroup = 0 THEN w
    ELSE
    LET pg   == w.sm.playerGroup
        cape == IF HasPart(w.sm, "cape") THEN w.sm.parts["cape"] ELSE 0
        mesh == IF cape # 0 THEN FirstMesh(w.heap, cape) ELSE 0
        capeBackup ==
            IF mesh # 0 /\ w.heap[w.heap[mesh].material].map # 0
            THEN [texture |-> w.heap[w.heap[mesh].material].map,
                  position |-> w.heap[cape].position,
                  rotation |-> w.heap[cape].rotation,
                  scale |-> w.heap[cape].scale]
            ELSE Null
        w1   == IF Len(w.heap[pg].children) > 0
                THEN [w EXCEPT !.heap = ClearChildren(disposeObjectTree(@, pg), pg)]
                ELSE w
        w2   == [w1 EXCEPT !.sm.parts = EmptyData, !.sm.glowMeshes = <<>>,
                           !.sm.bodyMeshes = <<>>, !.sm.defaultPositions = EmptyData]
        w3   == buildParts(w2, texture, PartDefs(isSlim), 1, renderVoxels)
    IN  IF capeBackup # Null
        THEN restoreCapeTransform(setCape(w3, capeBackup.texture), capeBackup)
        ELSE w3

\* layers.forEach((mesh, i) => ...) over a list of layer lists: the material
\* each layer writes to, with the index i + 1 of the last layer writing to it
LayerTargets(hp, sets) ==
    LET P == UNION { { <<hp[sets[s][n]].userData.glowMat, n>> : n \in 1..Len(sets[s]) }
                     : s \in 1..Len(sets) }
    IN  [m \in { p[1] : p \in P } |-> SetMax({ p[2] : p \in { q \in P : q[1] = m } })]

\* maxThickness * progress, with maxThickness = v * 0.05 and progress = n / N:
\* v is in tenths, the result in units of 1 / (200 * LAYERS_COUNT)
LayerThickness(v, n) == v * n

\* updateBorderThickness(v) (SkinModel.js:272-282)
updateBorderThickness(w, v) ==
    LET T == LayerTargets(w.heap, w.sm.glowMeshes)
    IN  [w EXCEPT !.heap = [id \in DOMAIN w.heap |->
            IF id \in DOMAIN T
            THEN [w.heap[id] EXCEPT !.uniforms.thickness = LayerThickness(v, T[id])]
            ELSE w.heap[id]]]

\* updateGlowHeight(p) (SkinModel.js:284-288)
updateGlowHeight(w, p) ==
    LET T == LayerTargets(w.heap, w.sm.glowMeshes)
    IN  [w EXCEPT !.heap = [id \in DOMAIN w.heap |->
            IF id \in DOMAIN T
            THEN [w.heap[id] EXCEPT !.uniforms.gradientLimit = p]
            ELSE w.heap[id]]]

\* an opacity of 1.0 per layer, not divided by the layer count
BodyOpacityUnscaled(N) == <<1, 1>>

\* 1.0 / (LAYERS_COUNT * 0.6) as a fraction
BodyOpacity(N) == <<10, N * 6>>

\* setGlowEffect(en) (SkinModel.js:290-300)
setGlowEffect(w, en) ==
    LET T == LayerTargets(w.heap, w.sm.glowMeshes)
    IN  [w EXCEPT !.heap = [id \in DOMAIN w.heap |->
            IF id \in DOMAIN T
            THEN [w.heap[id] EXCEPT !.uniforms.opacity =
                                 IF ~en THEN <<0, 1>> ELSE BodyOpacity(LAYERS_COUNT)]
            ELSE w.heap[id]]]

\* getPose() (SkinModel.js:346-386): pos always, rot and scl only when they
\* differ from the defaults; f(n) keeps three decimals (the model's unit)
getPose(w) ==
    IF w.sm.playerGroup = 0 THEN EmptyData
    ELSE
    LET isZero(arr) == arr = <<0, 0, 0>>
        isOne(arr)  == arr = <<1000, 1000, 1000>>
        Data(o, keys) == [k \in keys |-> CASE k = "rot" -> o.rotation
                                           [] k = "pos" -> o.position
                                           [] k = "scl" -> o.scale]
        partData(o) == Data(o, (IF ~isZero(o.rotation) THEN {"rot"} ELSE {})
                                 \cup {"pos"}
                                 \cup (IF ~isOne(o.scale) THEN {"scl"} ELSE {}))
        root     == w.heap[w.sm.playerGroup]
        rootKeys == (IF ~isZero(root.position) THEN {"pos"} ELSE {})
                      \cup (IF ~isZero(root.rotation) THEN {"rot"} ELSE {})
                      \cup (IF ~isOne(root.scale) THEN {"scl"} ELSE {})
    IN  [name \in (DOMAIN w.sm.parts) \cup (IF rootKeys # {} THEN {"root"} ELSE {}) |->
            IF name \in DOMAIN w.sm.parts
            THEN partData(w.heap[w.sm.parts[name]])
            ELSE Data(root, rootKeys)]

(***************************************************************************)
(* ItemFactory                                                             *)
(***************************************************************************)
\* the loops of generateMesh (part_000:46-62), texel k = y * width + x
RECURSIVE itemLoop(_, _, _)
itemLoop(tex, k, geos) ==
    IF k >= tex.w * tex.h THEN geos
    ELSE itemLoop(tex, k + 1, itemBody(geos, tex, k % tex.w, k \div tex.w))

RECURSIVE AllocAll(_, _, _)
AllocAll(w, obj, n) == IF n = 0 THEN w ELSE AllocAll(Alloc(w, obj), obj, n - 1)

\* generateMesh(texture) (part_000:34-82): the mesh id, or 0 for null
generateMesh(w, texture) ==
    LET img  == w.heap[texture].image
        \* baseGeo, and one clone of it per occupied texel
        geos == itemLoop(img, 0, <<>>)
        w1   == AllocAll(Alloc(w, BoxGeometry), BoxGeometry, Len(geos))
        res  == itemResult(geos, img)
    IN  IF res = Null THEN [w |-> w1, mesh |-> 0]
        ELSE LET ys     == { res.cubes[n].c[2] : n \in 1..Len(geos) }
                 merged == w1.next
                 w2     == Alloc(w1, [NewGeometry("item", res.nVerts, res.nIndices)
                                        EXCEPT !.sizeY = (SetMax(ys) - SetMin(ys)) \div 2 + 1])
                 mat    == w2.next
                 w3     == Alloc(w2, NewStandardMaterial(texture))
                 mesh   == w3.next
                 scale  == (res.scale[1] * 1000) \div res.scale[2]
                 w4     == Alloc(w3, [NewMesh(merged, mat) EXCEPT
                                        !.scale = <<scale, scale, scale>>,
                                        !.userData = [originalMat |-> mat]])
             IN  [w |-> w4, mesh |-> mesh]

(***************************************************************************)
(* EffectsPlugin, EditorPlugin, HistoryManager                             *)
(***************************************************************************)
Throw(error) == [kind |-> "throw", error |-> error]

\* getConfig() (EffectsPlugin.js:135-147): glowMeshes[0] is a list of layers,
\* which has no userData, so reading userData.glowMat of it throws
getConfig(w, fxp) ==
    IF Len(w.sm.glowMeshes) > 0
    THEN Throw("TypeError")
    ELSE [kind |-> "config", enabled |-> fxp.isEnabled,
          strength |-> fxp.bloomPass.strength, radius |-> fxp.bloomPass.radius,
          height |-> 500, thickness |-> 40]

\* PostProcessingManager.setBloom(en, str, rad, thr)
setBloom(fxp, en, str, rad, thr) ==
    [fxp EXCEPT !.bloomPass = [strength |-> IF en THEN str ELSE 0,
                               radius |-> rad, threshold |-> thr]]

(***************************************************************************)
(* JavaScript values and JSON.  A value is a number (in thousandths, with  *)
(* negative zero and NaN apart), a string, null, undefined, an array, or   *)
(* an object: its properties <<key, value>> in insertion order.  A JSON    *)
(* text is a sequence of tokens; the empty sequence stands for the         *)
(* undefined JSON.stringify(undefined) returns, which like "" is falsy.    *)
(***************************************************************************)
JsNum(n) == [t |-> "number", n |-> n, s |-> ""]
JsNegZero == [t |-> "number", n |-> 0, s |-> "-0"]
JsStr(str) == [t |-> "string", s |-> str]
JsNull == [t |-> "null"]
JsUndefined == [t |-> "undefined"]
JsArr(els) == [t |-> "array", els |-> els]
JsObj(props) == [t |-> "object", props |-> props]

Punct(c) == [k |-> "punct", s |-> c]

\* JSON.stringify(value): -0 is written 0, NaN is written null, a property
\* whose value is undefined is left out, an undefined array element is null
RECURSIVE JSONstringify(_)
RECURSIVE stringifyProps(_, _, _)
RECURSIVE stringifyEls(_, _)
JSONstringify(value) ==
    CASE value.t = "number" ->
            IF value.s = "NaN" THEN << [k |-> "null", s |-> "null"] >>
            ELSE << [k |-> "num", s |-> ToString(value.n)] >>
      [] value.t = "string"    -> << [k |-> "str", s |-> value.s] >>
      [] value.t = "null"      -> << [k |-> "null", s |-> "null"] >>
      [] value.t = "undefined" -> << >>
      [] value.t = "array"     -> <<Punct("[")>> \o stringifyEls(value.els, 1) \o <<Punct("]")>>
      [] value.t = "object"    ->
            <<Punct("{")>> \o stringifyProps(value.props, 1, TRUE) \o <<Punct("}")>>

stringifyProps(props, n, first) ==
    IF n > Len(props) THEN << >>
    ELSE IF props[n][2].t = "undefined" THEN stringifyProps(props, n + 1, first)
    ELSE (IF first THEN << >> ELSE <<Punct(",")>>)
         \o << [k |-> "str", s |-> props[n][1]], Punct(":") >>
         \o JSONstringify(props[n][2])
         \o stringifyProps(props, n + 1, FALSE)

stringifyEls(els, n) ==
    IF n > Len(els) THEN << >>
    ELSE (IF n = 1 THEN << >> ELSE <<Punct(",")>>)
         \o (IF els[n].t = "undefined" THEN << [k |-> "null", s |-> "null"] >>
             ELSE JSONstringify(els[n]))
         \o stringifyEls(els, n + 1)

\* the numbers a numeral of a text can stand for
Numerals == -2000..2000

\* JSON.parse(text): the value at token i and the index after it
RECURSIVE parseValue(_, _)
RECURSIVE parseMembers(_, _, _)
RECURSIVE parseMember(_, _, _)
RECURSIVE parseElements(_, _, _)
RECURSIVE parseElement(_, _, _)
parseValue(toks, i) ==
    CASE toks[i].k = "num"  ->
            [v |-> JsNum(CHOOSE n \in Numerals : ToString(n) = toks[i].s), next |-> i + 1]
      [] toks[i].k = "str"  -> [v |-> JsStr(toks[i].s), next |-> i + 1]
      [] toks[i].k = "null" -> [v |-> JsNull, next |-> i + 1]
      [] toks[i] = Punct("{") -> parseMembers(toks, i + 1, << >>)
      [] toks[i] = Punct("[") -> parseElements(toks, i + 1, << >>)

parseMembers(toks, i, acc) ==
    IF toks[i] = Punct("}") THEN [v |-> JsObj(acc), next |-> i + 1]
    ELSE IF toks[i] = Punct(",") THEN parseMembers(toks, i + 1, acc)
    ELSE parseMember(toks, parseValue(toks, i + 2), Append(acc, <<toks[i].s, JsNull>>))

parseMember(toks, r, acc) ==
    parseMembers(toks, r.next, [acc EXCEPT ![Len(acc)][2] = r.v])

parseElements(toks, i, acc) ==
    IF toks[i] = Punct("]") THEN [v |-> JsArr(acc), next |-> i + 1]
    ELSE IF toks[i] = Punct(",") THEN parseElements(toks, i + 1, acc)
    ELSE parseElement(toks, parseValue(toks, i), acc)

parseElement(toks, r, acc) ==
    parseElements(toks, r.next, Append(acc, r.v))

JSONparse(text) == parseValue(text, 1).v

\* if (str): a string is truthy unless it is empty; undefined is falsy
Truthy(text) == text # << >>

(***************************************************************************)
(* HistoryManager (EventManager.js:140-200).  The manager h holds          *)
(* undoStack and redoStack; undo and redo give the manager after the call  *)
(* and the state they handed to applyState, NotApplied when none.          *)
(***************************************************************************)
NotApplied == [t |-> "not applied"]

maxHistory == 50

\* a pushState that never drops the oldest entry
pushStateUncapped(ed, state) ==
    LET stateStr == JSONstringify(state)
        cleared  == [ed EXCEPT !.redoStack = <<>>]
    IN  IF Len(ed.undoStack) > 0 /\ ed.undoStack[Len(ed.undoStack)] = stateStr
        THEN cleared
        ELSE [cleared EXCEPT !.undoStack = Append(ed.undoStack, stateStr)]

\* HistoryManager.pushState(state) (EventManager.js:156-169)
pushState(ed, state) ==
    LET stateStr == JSONstringify(state)
        cleared  == [ed EXCEPT !.redoStack = <<>>]
    IN  IF Len(ed.undoStack) > 0 /\ ed.undoStack[Len(ed.undoStack)] = stateStr
        THEN cleared
        ELSE LET pushed == Append(ed.undoStack, stateStr)
             IN  [cleared EXCEPT !.undoStack = IF Len(pushed) > maxHistory THEN Tail(pushed)
                                               ELSE pushed]

\* an undo that does not save the current state for redo
undoForgetful(ed, currentState) ==
    IF Len(ed.undoStack) = 0 THEN [h |-> ed, applied |-> NotApplied]
    ELSE [h |-> [ed EXCEPT !.undoStack = SubSeq(@, 1, Len(@) - 1)],
          applied |-> JSONparse(ed.undoStack[Len(ed.undoStack)])]

\* HistoryManager.undo(currentState) (EventManager.js:175-184)
undo(ed, currentState) ==
    IF Len(ed.undoStack) = 0 THEN [h |-> ed, applied |-> NotApplied]
    ELSE [h |-> [ed EXCEPT !.redoStack = Append(@, JSONstringify(currentState)),
                           !.undoStack = SubSeq(@, 1, Len(@) - 1)],
          applied |-> IF Truthy(ed.undoStack[Len(ed.undoStack)])
                      THEN JSONparse(ed.undoStack[Len(ed.undoStack)])
                      ELSE NotApplied]

\* HistoryManager.redo(currentState) (EventManager.js:190-199)
redo(ed, currentState) ==
    IF Len(ed.redoStack) = 0 THEN [h |-> ed, applied |-> NotApplied]
    ELSE [h |-> [ed EXCEPT !.undoStack = Append(@, JSONstringify(currentState)),
                           !.redoStack = SubSeq(@, 1, Len(@) - 1)],
          applied |-> IF Truthy(ed.redoStack[Len(ed.redoStack)])
                      THEN JSONparse(ed.redoStack[Len(ed.redoStack)])
                      ELSE NotApplied]

(***************************************************************************)
(* ItemsPlugin                                                             *)
(***************************************************************************)
\* a glow loop that creates the material once and shares it between the layers
itemLayersSharedMaterial(w, shellGeo, itemHeight, glowGroup) ==
    LET glowMat      == w.next
        layerMesh(i) == w.next + 1 + i
        created(id)  ==
            IF id = glowMat
            THEN createGlowMaterial(itemHeight)
            ELSE [NewMesh(shellGeo, glowMat) EXCEPT
                    !.parent = glowGroup,
                    !.userData = [isGlowLayer |-> TRUE, glowMat |-> glowMat]]
        glowLayers == [n \in 1..LAYERS_COUNT |-> layerMesh(n - 1)]
    IN  [w |-> [w EXCEPT
                  !.heap = [id \in w.next..(w.next + LAYERS_COUNT) |-> created(id)]
                           @@ [@ EXCEPT ![glowGroup].children = @ \o glowLayers],
                  !.next = @ + LAYERS_COUNT + 1],
         layers |-> glowLayers]

\* the glow loop of _addGlowShells (part_002:35-50)
itemLayers(w, shellGeo, itemHeight, glowGroup) ==
    LET glowMat(i)   == w.next + 2 * i
        layerMesh(i) == w.next + 2 * i + 1
        created(id)  ==
            LET i == (id - w.next) \div 2
            IN  IF id = glowMat(i)
                THEN [createGlowMaterial(itemHeight) EXCEPT
                        !.uniforms.thickness = 0,
                        !.uniforms.opacity = <<0, 1>>,
                        !.polygonOffsetFactor = i * 100]
                ELSE [NewMesh(shellGeo, glowMat(i)) EXCEPT
                        !.parent = glowGroup,
                        !.userData = [isGlowLayer |-> TRUE, glowMat |-> glowMat(i)]]
        glowLayers == [n \in 1..LAYERS_COUNT |-> layerMesh(n - 1)]
    IN  [w |-> [w EXCEPT
                  !.heap = [id \in w.next..(w.next + 2 * LAYERS_COUNT - 1) |-> created(id)]
                           @@ [@ EXCEPT ![glowGroup].children = @ \o glowLayers],
                  !.next = @ + 2 * LAYERS_COUNT],
         layers |-> glowLayers]

\* a || b on numbers: b when a is undefined or 0
JsOr(a, b) == IF a = Undefined \/ a = 0 THEN b ELSE a

\* _addGlowShells(mesh) (part_002:22-54)
addGlowShells(w, mesh) ==
    LET itemHeight == JsOr(w.heap[w.heap[mesh].geometry].sizeY, 1)
        glowGroup  == w.next
        w1  == Alloc(w, NewGroup("GlowShells"))
        shellGeo   == w1.next
        w2  == Alloc(w1, CloneGeometry(w1.heap, w.heap[mesh].geometry))
        r   == itemLayers(w2, shellGeo, itemHeight, glowGroup)
    IN  [r.w EXCEPT !.heap = [Attach(@, mesh, glowGroup) EXCEPT
                                ![mesh].userData = ("glowLayers" :> r.layers) @@ @]]

\* 1.2 / LAYERS_COUNT as a fraction
ItemOpacity(N) == <<12, N * 10>>

\* updateItemGlow(item, config) (part_002:110-133)
updateItemGlow(w, item, config) ==
    IF ~HasData(w.heap[item], "glowLayers") THEN w
    ELSE
    LET T == LayerTargets(w.heap, << w.heap[item].userData.glowLayers >>)
        maxThickness == JsOr(config.thickness, 40)
        heightLimit  == IF config.height # Undefined THEN config.height ELSE 500
    IN  [w EXCEPT !.heap = [id \in DOMAIN w.heap |->
            IF id \in DOMAIN T
            THEN [w.heap[id] EXCEPT
                    !.uniforms.thickness = LayerThickness(maxThickness, T[id]),
                    !.uniforms.gradientLimit = heightLimit,
                    !.uniforms.opacity = IF ~config.enabled THEN <<0, 1>>
                                         ELSE ItemOpacity(LAYERS_COUNT)]
            ELSE w.heap[id]]]

\* updateAllGlow(config) (part_002:104-108)
RECURSIVE updateAllGlow(_, _, _, _)
updateAllGlow(w, its, n, config) ==
    IF n > Len(its) THEN w
    ELSE updateAllGlow(updateItemGlow(w, its[n], config), its, n + 1, config)

\* ItemsPlugin.getSnapshot() (part_002:137-145)
getSnapshot(hp, its) ==
    [n \in 1..Len(its) |->
        [name |-> hp[its[n]].name, uuid |-> its[n], pos |-> hp[its[n]].position,
         rot |-> hp[its[n]].rotation, scale |-> hp[its[n]].scale]]

\* a Vector3 or Euler written as an array of numbers
JsVec(v) == JsArr(<<JsNum(v[1]), JsNum(v[2]), JsNum(v[3])>>)

\* the keys of the pose object in insertion order: the parts as build and
\* setCape create them, then root
PoseOrder ==
    <<"head", "body", "rightArm", "leftArm", "rightLeg", "leftLeg", "cape", "root">>

\* the object getPose() returns as a JavaScript value: partData gets rot,
\* pos, scl in this order, rootData pos, rot, scl
poseValue(pose) ==
    LET keys(name) == IF name = "root" THEN <<"pos", "rot", "scl">>
                      ELSE <<"rot", "pos", "scl">>
        data(name) ==
            LET ks == SelectSeq(keys(name), LAMBDA k : k \in DOMAIN pose[name])
            IN  JsObj([n \in 1..Len(ks) |-> <<ks[n], JsVec(pose[name][ks[n]])>>])
        names == SelectSeq(PoseOrder, LAMBDA name : name \in DOMAIN pose)
    IN  JsObj([n \in 1..Len(names) |-> <<names[n], data(names[n])>>])

\* the array ItemsPlugin.getSnapshot() returns as a JavaScript value;
\* rotation.toArray() ends with the Euler order
itemsValue(snap) ==
    JsArr([n \in 1..Len(snap) |->
             JsObj(<< <<"name", JsStr(snap[n].name)>>,
                      <<"uuid", JsStr(ToString(snap[n].uuid))>>,
                      <<"pos", JsVec(snap[n].pos)>>,
                      <<"rot", JsArr(JsVec(snap[n].rot).els \o <<JsStr("XYZ")>>)>>,
                      <<"scale", JsVec(snap[n].scale)>> >>)])

\* EditorPlugin.getSnapshot() (part_003:206-211): { pose, items: itemsState }
editorSnapshot(w, its) ==
    JsObj(<< <<"pose", poseValue(getPose(w))>>,
             <<"items", itemsValue(getSnapshot(w.heap, its))>> >>)

\* EditorPlugin.saveHistory() (part_003:213)
saveHistory(ed, w, its) ==
    IF ed.present THEN pushState(ed, editorSnapshot(w, its))
    ELSE ed

(***************************************************************************)
(* The viewer: a scene holding the player group, a SkinModel, an           *)
(* ItemsPlugin and, when registered, an EffectsPlugin and an EditorPlugin. *)
(***************************************************************************)
World == [heap |-> heap, next |-> nextId, sm |-> skinModel]

SetWorld(w) == heap' = w.heap /\ nextId' = w.next /\ skinModel' = w.sm

\* the viewer's scene is the first object created
scene == 1

CapeImages == { [w |-> 64, h |-> 32, pat |-> "opaque"] }

\* what the texture loader finds behind an item URL; Null is a failed load
Fetch(url) ==
    CASE url = "sword.png"   -> [w |-> 1, h |-> 2, pat |-> "opaque"]
      [] url = "faint.png"   -> [w |-> 2, h |-> 2, pat |-> "faint"]
      [] url = "missing.png" -> Null

ItemUrls == {"sword.png", "faint.png", "missing.png"}

\* the arguments build is called with: image, isSlim, renderVoxels
BuildInputs ==
    { <<SkinTex("opaque"), FALSE, TRUE>>, <<SkinTex("hat"), TRUE, TRUE>>,
      <<SkinTex("opaque"), FALSE, FALSE>> }

\* glow configurations: thickness in tenths, height, strength and radius in
\* thousandths
Config(enabled, thickness, height) ==
    [enabled |-> enabled, thickness |-> thickness, height |-> height,
     strength |-> 1500, radius |-> 400]

Configs ==
    { Config(TRUE, 0, Undefined), Config(TRUE, 200, 500),
      Config(FALSE, Undefined, Undefined) }

\* SkinViewer constructor (SkinViewer.js:34-77), the SkinModel constructor
\* (SkinModel.js:13-22) and the plugins' constructors and init
InitView ==
    /\ heap = (scene :> [Object3D("Scene", "") EXCEPT !.children = <<2>>])
              @@ (2 :> [NewGroup("") EXCEPT !.parent = scene])
              @@ (3 :> [kind |-> "Material", type |-> "MeshBasicMaterial", map |-> 0,
                        disposed |-> FALSE])
    /\ nextId = 4
    /\ skinModel = [playerGroup |-> 2, parts |-> EmptyData, glowMeshes |-> <<>>,
                    bodyMeshes |-> <<>>, defaultPositions |-> EmptyData,
                    blackMaterial |-> 3]
    /\ items = <<>>
    /\ loading = <<>>
    /\ \E present \in BOOLEAN :
          fx = setBloom([present |-> present, isEnabled |-> FALSE,
                         bloomPass |-> [strength |-> 0, radius |-> 0, threshold |-> 0],
                         selectedObjects |-> <<>>],
                        FALSE, 0, 0, 100)
    /\ \E present \in BOOLEAN :
          editor = [present |-> present, object |-> 0,
                    undoStack |-> <<>>, redoStack |-> <<>>]
    /\ last = [op |-> "new", arg |-> Null, outcome |-> "ok"]
    /\ made = <<>>
    /\ calls = 0

\* skinModel.build(texture, isSlim, renderVoxels) with a newly loaded texture
Build(img, isSlim, renderVoxels) ==
    /\ calls < MaxCalls
    /\ SetWorld(build(Alloc(World, NewTexture(img)), nextId, isSlim, renderVoxels))
    /\ made' = Append(made, [op |-> "build", from |-> nextId, to |-> nextId' - 1])
    /\ last' = [op |-> "build",
                arg |-> [img |-> img, isSlim |-> isSlim, renderVoxels |-> renderVoxels],
                outcome |-> "ok"]
    /\ calls' = calls + 1
    /\ UNCHANGED <<items, loading, fx, editor>>
    /\ UNCHANGED <<voxVars, auxVars>>

\* skinModel.setCape(texture) with a newly loaded texture
SetCape(img) ==
    /\ calls < MaxCalls
    /\ SetWorld(setCape(Alloc(World, NewTexture(img)), nextId))
    /\ made' = Append(made, [op |-> "setCape", from |-> nextId, to |-> nextId' - 1])
    /\ last' = [op |-> "setCape", arg |-> img, outcome |-> "ok"]
    /\ calls' = calls + 1
    /\ UNCHANGED <<items, loading, fx, editor>>
    /\ UNCHANGED <<voxVars, auxVars>>

\* skinModel.setCape(null)
ResetCape ==
    /\ calls < MaxCalls
    /\ SetWorld(setCape(World, 0))
    /\ last' = [op |-> "setCape", arg |-> Null, outcome |-> "ok"]
    /\ calls' = calls + 1
    /\ UNCHANGED <<items, loading, fx, editor>>
    /\ UNCHANGED <<made, voxVars, auxVars>>

\* EffectsPlugin.updateConfig(config) (EffectsPlugin.js:28-39)
UpdateConfig(config) ==
    /\ fx.present
    /\ calls < MaxCalls
    /\ LET w1 == setGlowEffect(World, config.enabled)
           w2 == IF config.thickness # Undefined
                 THEN updateBorderThickness(w1, config.thickness) ELSE w1
           w3 == IF config.height # Undefined
                 THEN updateGlowHeight(w2, config.height) ELSE w2
       IN  SetWorld(w3)
    /\ fx' = setBloom([fx EXCEPT !.isEnabled = config.enabled],
                      config.enabled, config.strength, config.radius, 850)
    /\ last' = [op |-> "updateConfig", arg |-> config, outcome |-> "ok"]
    /\ calls' = calls + 1
    /\ UNCHANGED <<items, loading, editor>>
    /\ UNCHANGED <<made, voxVars, auxVars>>

\* EditorPlugin.selectObject(obj) (part_003:176-185)
selectObject(ed, obj) == [ed EXCEPT !.object = obj]

\* EditorPlugin.deselect() (part_003:187-194)
deselect(ed) == [ed EXCEPT !.object = 0]

\* EffectsPlugin.setSelected(obj) -> PostProcessingManager.setSelected(obj)
setSelected(fxp, obj) ==
    [fxp EXCEPT !.selectedObjects = IF obj # 0 THEN <<obj>> ELSE <<>>]

DropAt(q, n) == SubSeq(q, 1, n - 1) \o SubSeq(q, n + 1, Len(q))

\* ItemsPlugin.addItem(url, name), up to the start of the texture load
\* (part_002:61-65, part_000:14-16)
AddItem(url, name) ==
    /\ calls < MaxCalls
    /\ editor' = saveHistory(editor, World, items)
    /\ loading' = Append(loading, [url |-> url, name |-> name])
    /\ last' = [op |-> "addItem", arg |-> url, outcome |-> "pending"]
    /\ calls' = calls + 1
    /\ UNCHANGED <<heap, nextId, skinModel, items, fx>>
    /\ UNCHANGED <<made, voxVars, auxVars>>

\* the texture's onLoad callback (part_000:16-27) and, when the promise
\* resolves, the then-callback of addItem (part_002:65-85)
ItemLoaded(n) ==
    /\ n \in 1..Len(loading)
    /\ Fetch(loading[n].url) # Null
    /\ loading' = DropAt(loading, n)
    /\ \E r \in { generateMesh(Alloc(World, NewTexture(Fetch(loading[n].url))), nextId) } :
          IF r.mesh = 0
          THEN /\ SetWorld(r.w)
               /\ last' = [op |-> "itemLoaded", arg |-> loading[n].url,
                           outcome |-> "rejected: Error generating geometry"]
               /\ UNCHANGED <<items, fx, editor>>
          ELSE \E w2 \in { addGlowShells(
                              [r.w EXCEPT
                                 !.heap[r.mesh].name = loading[n].name,
                                 !.heap[r.mesh].position = <<8000, 8000, 8000>>,
                                 !.heap[r.mesh].userData =
                                     ("sourceUrl" :> loading[n].url) @@ @],
                              r.mesh) } :
               \E config \in { IF fx.present THEN getConfig(w2, fx) ELSE Null } :
                  IF config.kind = "throw"
                  THEN /\ SetWorld(w2)
                       /\ last' = [op |-> "itemLoaded", arg |-> loading[n].url,
                                   outcome |-> "rejected: TypeError"]
                       /\ UNCHANGED <<items, fx, editor>>
                  ELSE /\ SetWorld([(IF fx.present THEN updateItemGlow(w2, r.mesh, config)
                                     ELSE w2)
                                      EXCEPT !.heap = Attach(@, scene, r.mesh)])
                       /\ items' = Append(items, r.mesh)
                       /\ editor' = IF editor.present THEN selectObject(editor, r.mesh)
                                    ELSE editor
                       /\ fx' = IF editor.present /\ fx.present
                                THEN setSelected(fx, r.mesh) ELSE fx
                       /\ last' = [op |-> "itemLoaded", arg |-> loading[n].url,
                                   outcome |-> "resolved"]
    /\ UNCHANGED calls
    /\ UNCHANGED <<made, voxVars, auxVars>>

\* the texture's onError callback: the promise rejects (part_000:27)
ItemLoadError(n) ==
    /\ n \in 1..Len(loading)
    /\ Fetch(loading[n].url) = Null
    /\ loading' = DropAt(loading, n)
    /\ last' = [op |-> "itemLoaded", arg |-> loading[n].url,
                outcome |-> "rejected: load error"]
    /\ UNCHANGED <<heap, nextId, skinModel, items, fx, editor, calls>>
    /\ UNCHANGED <<made, voxVars, auxVars>>

\* ItemsPlugin.removeItem(mesh) (part_002:88-100)
RemoveItem(mesh) ==
    /\ mesh \in Range(items)
    /\ calls < MaxCalls
    /\ editor' = IF editor.present THEN deselect(saveHistory(editor, World, items))
                 ELSE editor
    /\ heap' = disposeObjectTree(Detach(heap, scene, mesh), mesh)
    /\ items' = SeqRemove(items, mesh)
    /\ fx' = IF editor.present /\ fx.present THEN setSelected(fx, 0) ELSE fx
    /\ last' = [op |-> "removeItem", arg |-> mesh, outcome |-> "ok"]
    /\ calls' = calls + 1
    /\ UNCHANGED <<nextId, skinModel, loading>>
    /\ UNCHANGED <<made, voxVars, auxVars>>

\* ItemsPlugin.updateAllGlow(config) (part_002:104-108)
UpdateAllGlow(config) ==
    /\ calls < MaxCalls
    /\ SetWorld(updateAllGlow(World, items, 1, config))
    /\ last' = [op |-> "updateAllGlow", arg |-> config, outcome |-> "ok"]
    /\ calls' = calls + 1
    /\ UNCHANGED <<items, loading, fx, editor>>
    /\ UNCHANGED <<made, voxVars, auxVars>>

\* ItemsPlugin.dispose() (part_002:159-165): the forEach, then this.items = []
RECURSIVE itemsDispose(_, _, _)
itemsDispose(hp, its, n) ==
    IF n > Len(its) THEN hp
    ELSE itemsDispose(disposeObjectTree(Detach(hp, scene, its[n]), its[n]), its, n + 1)

\* itemsPlugin.dispose(), as SkinViewer.dispose() also calls it; made records
\* the call and how many texture loads were pending then
DisposeItems ==
    /\ calls < MaxCalls
    /\ heap' = itemsDispose(heap, items, 1)
    /\ items' = <<>>
    /\ made' = Append(made, [op |-> "dispose", from |-> nextId, to |-> nextId - 1,
                             pending |-> Len(loading)])
    /\ last' = [op |-> "dispose", arg |-> Null, outcome |-> "ok"]
    /\ calls' = calls + 1
    /\ UNCHANGED <<nextId, skinModel, loading, fx, editor>>
    /\ UNCHANGED <<voxVars, auxVars>>

\* detectSlimSkin(image) (SkinUtils.js:58-66): the image is drawn on a new
\* canvas and the pixel at (55, 20) is tested for alpha 0
detectSlimSkin(image) == PixelAlpha(drawImage(<<>>, image), 1, 55, 20) = 0

\* SkinModel.setPose(pose) (SkinModel.js:310-340): every part back to its
\* default transform, then the entries of the pose applied
setPose(w, pose) ==
    LET sm == w.sm
        named(id) == { name \in DOMAIN sm.parts : sm.parts[name] = id }
        reset == [id \in DOMAIN w.heap |->
                    IF named(id) # {}
                    THEN [w.heap[id] EXCEPT
                            !.rotation = <<0, 0, 0>>,
                            !.scale = <<1000, 1000, 1000>>,
                            !.position = IF (CHOOSE name \in named(id) : TRUE)
                                              \in DOMAIN sm.defaultPositions
                                         THEN sm.defaultPositions[CHOOSE name \in named(id) : TRUE]
                                         ELSE @]
                    ELSE IF id = sm.playerGroup
                    THEN [w.heap[id] EXCEPT !.position = <<0, 0, 0>>,
                                            !.rotation = <<0, 0, 0>>,
                                            !.scale = <<1000, 1000, 1000>>]
                    ELSE w.heap[id]]
        apply(o, data) ==
            [o EXCEPT !.rotation = IF "rot" \in DOMAIN data THEN data.rot ELSE @,
                      !.position = IF "pos" \in DOMAIN data THEN data.pos ELSE @,
                      !.scale    = IF "scl" \in DOMAIN data THEN data.scl ELSE @]
    IN  IF pose = Null THEN [w EXCEPT !.heap = reset]
        ELSE [w EXCEPT !.heap = [id \in DOMAIN w.heap |->
                 IF id = sm.playerGroup
                 THEN IF "root" \in DOMAIN pose THEN apply(reset[id], pose["root"])
                      ELSE reset[id]
                 ELSE IF named(id) \cap (DOMAIN pose \ {"root"}) # {}
                 THEN apply(reset[id], pose[CHOOSE name \in named(id) : TRUE])
                 ELSE reset[id]]]

\* the poses a caller sets: none (reset), an arm rotated, an arm moved, both
Poses ==
    { Null,
      [rightArm |-> [rot |-> <<-500, 0, 0>>]],
      [leftArm |-> [pos |-> <<7000, -2000, 0>>]],
      [rightArm |-> [rot |-> <<-500, 0, 0>>], leftArm |-> [pos |-> <<7000, -2000, 0>>],
       root |-> [scl |-> <<2000, 2000, 2000>>]] }

\* SkinViewer.setPose(poseData) (SkinViewer.js:165-172)
SetPose(poseData) ==
    /\ calls < MaxCalls
    /\ editor' = saveHistory(editor, World, items)
    /\ SetWorld(setPose(World, poseData))
    /\ needsRender' = TRUE
    /\ last' = [op |-> "setPose", arg |-> poseData, outcome |-> "ok"]
    /\ calls' = calls + 1
    /\ UNCHANGED <<items, loading, fx, made>>
    /\ UNCHANGED <<voxVars, eventVars, isDisposed, isVisible, renderPaused, pending,
                   observed, requested, lastRequest, frame>>

\* the texture loader's onLoad callback of loadSkin (SkinViewer.js:135-149);
\* last keeps the pose and the default positions the callback found
LoadSkin(image) ==
    /\ calls < MaxCalls
    /\ \E currentPose \in { getPose(World) }, isSlim \in { detectSlimSkin(image) } :
          /\ editor' = IF editor.present THEN deselect(editor) ELSE editor
          /\ fx' = IF editor.present /\ fx.present THEN setSelected(fx, 0) ELSE fx
          /\ SetWorld(setPose(build(Alloc(World, NewTexture(image)), nextId, isSlim, TRUE),
                              currentPose))
          /\ last' = [op |-> "loadSkin",
                      arg |-> [image |-> image, isSlim |-> isSlim, pose |-> currentPose,
                               defaults |-> skinModel.defaultPositions],
                      outcome |-> "ok"]
    /\ needsRender' = TRUE
    /\ made' = Append(made, [op |-> "build", from |-> nextId, to |-> nextId' - 1])
    /\ calls' = calls + 1
    /\ UNCHANGED <<items, loading>>
    /\ UNCHANGED <<voxVars, eventVars, isDisposed, isVisible, renderPaused, pending,
                   observed, requested, lastRequest, frame>>

NextView ==
    \/ \E in \in BuildInputs : Build(in[1], in[2], in[3])
    \/ \E img \in CapeImages : SetCape(img)
    \/ ResetCape
    \/ \E config \in Configs : UpdateConfig(config)
    \/ \E url \in ItemUrls : AddItem(url, "item")
    \/ \E n \in 1..Len(loading) : ItemLoaded(n)
    \/ \E n \in 1..Len(loading) : ItemLoadError(n)
    \/ \E mesh \in Range(items) : RemoveItem(mesh)
    \/ \E config \in Configs : UpdateAllGlow(config)

(***************************************************************************)
(* Specifications.  Spec runs the viewer; SpecVoxel runs one voxelizer     *)
(* call step by step.  Each leaves the other's variables alone.            *)
(***************************************************************************)
VoxelIdle ==
    /\ vmode = "idle" /\ vtex = SkinTex("blank") /\ vdef = NoDef /\ vpc = "done"
    /\ cachedCanvas = NoCanvas /\ vprior = NoCanvas
    /\ vf = 0 /\ vi = 0 /\ vj = 0 /\ vbuf = EmptyBuffers /\ vgeos = <<>>
    /\ vresult = Pending /\ vsampled = <<>>

ViewIdle ==
    /\ heap = EmptyData /\ nextId = 1
    /\ skinModel = Null /\ items = <<>> /\ loading = <<>>
    /\ fx = Null /\ editor = Null
    /\ last = [op |-> "none", arg |-> Null, outcome |-> "ok"]
    /\ made = <<>>
    /\ calls = 0

EventIdle == listeners = <<>> /\ invoked = <<>> /\ emitted = 0

NoFrame == [ran |-> FALSE, rendered |-> FALSE, requested |-> FALSE]

LoopIdle ==
    /\ isDisposed = FALSE /\ isVisible = FALSE /\ needsRender = FALSE
    /\ renderPaused = FALSE /\ pending = 0 /\ observed = "none"
    /\ requested = FALSE /\ lastRequest = "none" /\ frame = NoFrame

AuxIdle == EventIdle /\ LoopIdle

Init == InitView /\ VoxelIdle /\ AuxIdle

Next == NextView

Spec == Init /\ [][Next]_vars

InitVoxel == (InitLayer \/ InitItem) /\ ViewIdle /\ AuxIdle

NextVoxel == LayerBegin \/ LayerStep \/ LayerReturn \/ ItemStep \/ ItemReturn

SpecVoxel == InitVoxel /\ [][NextVoxel]_vars

(***************************************************************************)
(* SpecHistory runs a HistoryManager alone: pushState, undo and redo are   *)
(* called with snapshots in any order.  The manager is kept in editor;     *)
(* last records the call, the state handed to applyState, the manager      *)
(* before the call, and the same of the call before.                       *)
(***************************************************************************)
MaxOps == 4

Snapshot(poseProps, itemEls) ==
    JsObj(<< <<"pose", JsObj(poseProps)>>, <<"items", JsArr(itemEls)>> >>)

\* snapshots of the shape EditorPlugin.getSnapshot() gives; the third has a
\* negative zero where the fourth has zero
Snapshots ==
    { Snapshot(<< >>, << >>),
      Snapshot(<< <<"head", JsObj(<< <<"pos", JsVec(<<0, 1000, 0>>)>> >>)>> >>, << >>),
      Snapshot(<< <<"head", JsObj(<< <<"rot", JsVec(<<250, 0, 0>>)>>,
                                     <<"pos", JsArr(<<JsNegZero, JsNum(1000), JsNum(0)>>)>> >>)>> >>,
               << JsObj(<< <<"name", JsStr("sword")>>,
                           <<"pos", JsVec(<<0, -500, 0>>)>> >>) >>),
      Snapshot(<< <<"head", JsObj(<< <<"rot", JsVec(<<250, 0, 0>>)>>,
                                     <<"pos", JsArr(<<JsNum(0), JsNum(1000), JsNum(0)>>)>> >>)>> >>,
               << JsObj(<< <<"name", JsStr("sword")>>,
                           <<"pos", JsVec(<<0, -500, 0>>)>> >>) >>) }

\* new HistoryManager(applyStateCallback)
NewHistory == [present |-> TRUE, object |-> 0, undoStack |-> <<>>, redoStack |-> <<>>]

NoCall == [op |-> "none", arg |-> JsUndefined, applied |-> NotApplied, before |-> NewHistory]

Call(op, arg, applied) ==
    [op |-> op, arg |-> arg, applied |-> applied, before |-> editor,
     prev |-> [op |-> last.op, arg |-> last.arg, applied |-> last.applied,
               before |-> last.before]]

InitHistory ==
    /\ VoxelIdle /\ AuxIdle
    /\ heap = EmptyData /\ nextId = 1
    /\ skinModel = Null /\ items = <<>> /\ loading = <<>>
    /\ fx = Null
    /\ editor = NewHistory
    /\ last = [NoCall EXCEPT !.op = "new"] @@ [prev |-> NoCall]
    /\ made = <<>>
    /\ calls = 0

HistoryPush(state) ==
    /\ calls < MaxOps
    /\ editor' = pushState(editor, state)
    /\ last' = Call("pushState", state, NotApplied)
    /\ calls' = calls + 1
    /\ UNCHANGED <<heap, nextId, skinModel, items, loading, fx, made>>
    /\ UNCHANGED <<voxVars, auxVars>>

HistoryUndo(currentState) ==
    /\ calls < MaxOps
    /\ \E r \in { undo(editor, currentState) } :
          /\ editor' = r.h
          /\ last' = Call("undo", currentState, r.applied)
    /\ calls' = calls + 1
    /\ UNCHANGED <<heap, nextId, skinModel, items, loading, fx, made>>
    /\ UNCHANGED <<voxVars, auxVars>>

HistoryRedo(currentState) ==
    /\ calls < MaxOps
    /\ \E r \in { redo(editor, currentState) } :
          /\ editor' = r.h
          /\ last' = Call("redo", currentState, r.applied)
    /\ calls' = calls + 1
    /\ UNCHANGED <<heap, nextId, skinModel, items, loading, fx, made>>
    /\ UNCHANGED <<voxVars, auxVars>>

NextHistory ==
    \/ \E state \in Snapshots : HistoryPush(state)
    \/ \E currentState \in Snapshots : HistoryUndo(currentState)
    \/ \E currentState \in Snapshots : HistoryRedo(currentState)

SpecHistory == InitHistory /\ [][NextHistory]_vars

\* the manager after n <= maxHistory pushState calls that alternate between
\* two snapshots
Pushed(n) ==
    [NewHistory EXCEPT !.undoStack =
        [k \in 1..n |->
            JSONstringify(IF k % 2 = 0 THEN Snapshot(<< >>, << >>)
                          ELSE Snapshot(<< <<"head", JsObj(<< <<"pos", JsVec(<<0, 1000, 0>>)>> >>)>> >>,
                                        << >>))]]

\* SpecHistoryFull starts from a history that is one short of full, or full
InitHistoryFull ==
    /\ VoxelIdle /\ AuxIdle
    /\ heap = EmptyData /\ nextId = 1
    /\ skinModel = Null /\ items = <<>> /\ loading = <<>>
    /\ fx = Null
    /\ editor \in { Pushed(n) : n \in {maxHistory - 1, maxHistory} }
    /\ last = [NoCall EXCEPT !.op = "new"] @@ [prev |-> NoCall]
    /\ made = <<>>
    /\ calls = 0

SpecHistoryFull == InitHistoryFull /\ [][NextHistory]_vars

(***************************************************************************)
(* SpecItems runs the ItemsPlugin of a viewer: items are added, their      *)
(* textures load or fail at any later time, items are removed and the      *)
(* plugin is disposed.                                                     *)
(***************************************************************************)
NextItems ==
    \/ \E url \in ItemUrls : AddItem(url, "item")
    \/ \E n \in 1..Len(loading) : ItemLoaded(n)
    \/ \E n \in 1..Len(loading) : ItemLoadError(n)
    \/ \E mesh \in Range(items) : RemoveItem(mesh)
    \/ DisposeItems

SpecItems == Init /\ [][NextItems]_vars

(***************************************************************************)
(* SpecPose runs loadSkin and setPose on a viewer.                         *)
(***************************************************************************)
NextPose ==
    \/ \E image \in { SkinTex("opaque"), SkinTex("hat") } : LoadSkin(image)
    \/ \E poseData \in Poses : SetPose(poseData)

SpecPose == Init /\ [][NextPose]_vars

(***************************************************************************)
(* EventManager (src/managers/EventManager.js).  One event name is         *)
(* modelled.  Its listener Set is a sequence of slots in insertion order;  *)
(* Set.delete marks a slot dead, so that a forEach in progress skips it,   *)
(* as the iteration of a JavaScript Set does.  A registered function is    *)
(* either the callback itself (on) or the wrapper once builds around it.   *)
(* The callbacks are "plain" (returns), "throws" (throws every time it is  *)
(* called) and "emits" (emits the same event from inside its first call).  *)
(***************************************************************************)
MaxListeners == 2
MaxEmits == 3

Callbacks == {"plain", "throws", "emits"}

\* on(event, callback): listeners.get(event).add(callback)
on(st, fn) ==
    [listeners |-> Append(st.listeners, [fn |-> fn, live |-> TRUE]),
     invoked   |-> Append(st.invoked, 0)]

\* off(event, callback): listeners.get(event).delete(callback)
off(st, pos) == [st EXCEPT !.listeners[pos].live = FALSE]

\* once(event, callback): registers a wrapper around the callback
once(st, cb) == on(st, [wrapper |-> TRUE, callback |-> cb])

RECURSIVE forEach(_, _)

\* the call callback(...args): what the caller's function does when run
callback(st, pos) ==
    LET ran == [st EXCEPT !.invoked[pos] = @ + 1]
        cb  == st.listeners[pos].fn.callback
    IN  CASE cb = "plain"  -> [st |-> ran, threw |-> FALSE]
          [] cb = "throws" -> [st |-> ran, threw |-> TRUE]
          [] cb = "emits"  ->
                [st |-> IF st.invoked[pos] = 0 THEN forEach(ran, 1) ELSE ran,
                 threw |-> FALSE]

\* the wrapper of once: callback(...args); this.off(event, wrapper)
wrapper(st, pos) ==
    LET r == callback(st, pos)
    IN  IF r.threw THEN r ELSE [st |-> off(r.st, pos), threw |-> FALSE]

\* listeners.get(event).forEach(cb => { try { cb(data) } catch (e) { ... } })
forEach(st, pos) ==
    IF pos > Len(st.listeners) THEN st
    ELSE IF ~st.listeners[pos].live THEN forEach(st, pos + 1)
    ELSE IF st.listeners[pos].fn.wrapper THEN forEach(wrapper(st, pos).st, pos + 1)
    ELSE forEach(callback(st, pos).st, pos + 1)

\* emit(event, data)
emit(st) == IF st.listeners = <<>> THEN st ELSE forEach(st, 1)

EventManager == [listeners |-> listeners, invoked |-> invoked]

InitEvents ==
    /\ VoxelIdle /\ ViewIdle /\ LoopIdle
    /\ listeners = <<>> /\ invoked = <<>> /\ emitted = 0

On(cb) ==
    /\ Len(listeners) < MaxListeners
    /\ \E st \in { on(EventManager, [wrapper |-> FALSE, callback |-> cb]) } :
          listeners' = st.listeners /\ invoked' = st.invoked
    /\ UNCHANGED <<emitted, voxVars, viewVars, loopVars>>

Once(cb) ==
    /\ Len(listeners) < MaxListeners
    /\ \E st \in { once(EventManager, cb) } :
          listeners' = st.listeners /\ invoked' = st.invoked
    /\ UNCHANGED <<emitted, voxVars, viewVars, loopVars>>

Emit ==
    /\ emitted < MaxEmits
    /\ \E st \in { emit(EventManager) } :
          listeners' = st.listeners /\ invoked' = st.invoked
    /\ emitted' = emitted + 1
    /\ UNCHANGED <<voxVars, viewVars, loopVars>>

NextEvents ==
    \/ \E cb \in Callbacks : On(cb)
    \/ \E cb \in Callbacks : Once(cb)
    \/ Emit

SpecEvents == InitEvents /\ [][NextEvents]_vars

\* C21: a callback registered with once(event, cb) is invoked at most once
\* over any sequence of emit(event) calls, emits from inside a listener of
\* the event and a throwing cb included.
C21_AsClaimed ==
    \A n \in DOMAIN listeners : listeners[n].fn.wrapper => invoked[n] <= 1

\* a throwing once-callback has run twice and is still registered
C21_Witness ==
    \E n \in DOMAIN listeners :
        /\ listeners[n].fn.wrapper /\ listeners[n].fn.callback = "throws"
        /\ listeners[n].live /\ invoked[n] = 2

\* what the code does guarantee: a once-callback that returns without
\* emitting is invoked at most once, whatever the other listeners do
C21_ReturningOnce ==
    \A n \in DOMAIN listeners :
        (listeners[n].fn.wrapper /\ listeners[n].fn.callback = "plain")
            => /\ invoked[n] <= 1
               /\ (invoked[n] = 1 => ~listeners[n].live)

(***************************************************************************)
(* The render loop of the SkinViewer (src/core/SkinViewer.js).  The state  *)
(* starts where the constructor leaves it: it has called animate() once.   *)
(* The browser runs a pending requestAnimationFrame callback at each       *)
(* animation frame and reports to the IntersectionObserver first where the *)
(* container is and then every change.  cameraManager.update() fires the   *)
(* controls' change event when the camera moved (moved).                   *)
(***************************************************************************)
MaxPending == 3

Viewer ==
    [isDisposed |-> isDisposed, isVisible |-> isVisible, needsRender |-> needsRender,
     pending |-> pending, requested |-> requested, lastRequest |-> lastRequest,
     frame |-> NoFrame]

\* animate() without the final this.needsRender = false
animateKeepsFlag(v, paused, moved) ==
    IF v.isDisposed \/ ~v.isVisible
    THEN [v EXCEPT !.frame = [ran |-> TRUE, rendered |-> FALSE, requested |-> v.requested]]
    ELSE LET scheduled == [v EXCEPT !.pending = @ + 1]
             updated   == IF moved
                          THEN [scheduled EXCEPT !.needsRender = TRUE, !.requested = TRUE,
                                                 !.lastRequest = "camera"]
                          ELSE scheduled
         IN  IF paused /\ ~updated.needsRender
             THEN [updated EXCEPT !.frame = [ran |-> TRUE, rendered |-> FALSE,
                                             requested |-> updated.requested]]
             ELSE [updated EXCEPT !.requested = FALSE,
                                  !.frame = [ran |-> TRUE, rendered |-> TRUE,
                                             requested |-> updated.requested]]

\* animate()
animate(v, paused, moved) ==
    IF v.isDisposed \/ ~v.isVisible
    THEN [v EXCEPT !.frame = [ran |-> TRUE, rendered |-> FALSE, requested |-> v.requested]]
    ELSE LET scheduled == [v EXCEPT !.pending = @ + 1]
             updated   == IF moved
                          THEN [scheduled EXCEPT !.needsRender = TRUE, !.requested = TRUE,
                                                 !.lastRequest = "camera"]
                          ELSE scheduled
         IN  IF paused /\ ~updated.needsRender
             THEN [updated EXCEPT !.frame = [ran |-> TRUE, rendered |-> FALSE,
                                             requested |-> updated.requested]]
             ELSE [updated EXCEPT !.needsRender = FALSE, !.requested = FALSE,
                                  !.frame = [ran |-> TRUE, rendered |-> TRUE,
                                             requested |-> updated.requested]]

SetViewer(v) ==
    /\ isDisposed' = v.isDisposed /\ isVisible' = v.isVisible
    /\ needsRender' = v.needsRender /\ pending' = v.pending
    /\ requested' = v.requested /\ lastRequest' = v.lastRequest
    /\ frame' = v.frame

\* new SkinViewer(container, config)
InitLoop ==
    /\ VoxelIdle /\ ViewIdle /\ EventIdle
    /\ renderPaused \in BOOLEAN
    /\ observed = "none"
    /\ \E v \in { animate([isDisposed |-> FALSE, isVisible |-> TRUE, needsRender |-> TRUE,
                           pending |-> 0, requested |-> TRUE, lastRequest |-> "constructor",
                           frame |-> NoFrame], renderPaused, FALSE) } :
          /\ isDisposed = v.isDisposed /\ isVisible = v.isVisible
          /\ needsRender = v.needsRender /\ pending = v.pending
          /\ requested = v.requested /\ lastRequest = v.lastRequest
          /\ frame = v.frame

\* the browser runs one pending animation-frame callback
Frame(moved) ==
    /\ pending > 0
    /\ SetViewer(animate([Viewer EXCEPT !.pending = @ - 1], renderPaused, moved))
    /\ UNCHANGED <<renderPaused, observed, voxVars, viewVars, eventVars>>

\* the IntersectionObserver's callback
Intersect(isIntersecting, moved) ==
    /\ observed # "disconnected"
    /\ observed # (IF isIntersecting THEN "in" ELSE "out")
    /\ isIntersecting => pending < MaxPending
    /\ observed' = (IF isIntersecting THEN "in" ELSE "out")
    /\ IF isIntersecting
       THEN SetViewer(animate([Viewer EXCEPT !.isVisible = TRUE, !.needsRender = TRUE,
                                             !.requested = TRUE, !.lastRequest = "visible"],
                              renderPaused, moved))
       ELSE SetViewer([Viewer EXCEPT !.isVisible = FALSE])
    /\ UNCHANGED <<renderPaused, voxVars, viewVars, eventVars>>

RenderRequests == {"requestRender", "addPlugin", "onResize", "loadSkin", "setPose"}

\* requestRender(), directly or at the end of addPlugin, onResize, loadSkin, setPose
RequestRender(by) ==
    /\ by = "requestRender" \/ ~isDisposed
    /\ SetViewer([Viewer EXCEPT !.needsRender = TRUE, !.requested = TRUE, !.lastRequest = by])
    /\ UNCHANGED <<renderPaused, observed, voxVars, viewVars, eventVars>>

\* dispose()
Dispose ==
    /\ ~isDisposed
    /\ SetViewer([Viewer EXCEPT !.isDisposed = TRUE])
    /\ observed' = "disconnected"
    /\ UNCHANGED <<renderPaused, voxVars, viewVars, eventVars>>

NextLoop ==
    \/ \E moved \in BOOLEAN : Frame(moved)
    \/ \E isIntersecting \in BOOLEAN, moved \in BOOLEAN : Intersect(isIntersecting, moved)
    \/ \E by \in RenderRequests : RequestRender(by)
    \/ Dispose

\* the browser keeps running animation frames
SpecLoop == InitLoop /\ [][NextLoop]_vars /\ WF_vars(\E moved \in BOOLEAN : Frame(moved))

\* a frame is rendered only when one was asked for, and rendering clears the flag
RenderOnDemand ==
    frame.rendered => /\ ~needsRender
                      /\ renderPaused => frame.requested

\* C22 as stated: with renderPaused, animate renders only if needsRender was
\* set since the last rendered frame and clears it after rendering, and every
\* request made while visible and not disposed is followed by a rendered frame.
C22_AsClaimed ==
    /\ [](renderPaused => RenderOnDemand)
    /\ (renderPaused /\ requested /\ isVisible /\ ~isDisposed) ~> ~requested

\* C22 (amended): with renderPaused, animate renders only if needsRender was
\* set since the last rendered frame and clears it after rendering, and every
\* request made while visible and not disposed is followed by a rendered
\* frame unless the viewer is hidden or disposed before that frame.
C22_RenderOnDemand ==
    /\ [](renderPaused => RenderOnDemand)
    /\ (renderPaused /\ requested /\ isVisible /\ ~isDisposed)
           ~> (~requested \/ ~isVisible \/ isDisposed)

\* a paused viewer has just rendered the frame a setPose asked for
C22_Witness ==
    /\ renderPaused /\ frame.rendered /\ frame.requested
    /\ lastRequest = "setPose" /\ ~requested /\ ~needsRender

\* C24: a SkinViewer never has more than one pending requestAnimationFrame
\* callback for animate.
C24_AsClaimed == pending <= 1

\* the observer's first report has started a second loop beside the constructor's
C24_Witness ==
    /\ pending = 2 /\ observed = "in" /\ isVisible /\ ~isDisposed

\* what the code does guarantee: a visible, undisposed viewer has a loop running
C24_LoopAlive == (isVisible /\ ~isDisposed) => pending >= 1

(***************************************************************************)
(* Properties of the voxelizers (checked under SpecVoxel).                 *)
(***************************************************************************)
InAtlas(u, v) == u \in 0..(ATLAS - 1) /\ v \in 0..(ATLAS - 1)

IsHit(s) == s.hit

\* the texels that passed the occupancy test, in loop order: the k-th of
\* them is the texel slab (or cube) number k was emitted for
Hits == SelectSeq(vsampled, IsHit)

\* every (face, i, j) the six loops of createVoxelLayer range over
FaceTexels(def) ==
    UNION { { <<fi, i, j>> : i \in 0..(faces(def)[fi].width - 1),
                             j \in 0..(faces(def)[fi].height - 1) } : fi \in 1..6 }

SampledTexels == { <<vsampled[n].f, vsampled[n].i, vsampled[n].j>> : n \in 1..Len(vsampled) }

\* the whole six-face footprint lies in the atlas and is opaque
FootprintOpaque ==
    \A t \in FaceTexels(vdef) :
        LET u == faces(vdef)[t[1]].u + t[2]
            v == faces(vdef)[t[1]].v + t[3]
        IN  InAtlas(u, v) /\ CanvasAlpha(vtex, u, v) > 0

\* C1: createVoxelLayer emits exactly one slab for each (face, texel) whose
\* atlas alpha at (f.u+i, f.v+j) is > 0 and none where it is 0: every pair is
\* tested once, the slabs are those of the occupied pairs in loop order (each
\* carrying its texel's UV), a fully opaque footprint gives
\* 2(w*h)+2(d*h)+2(w*d) slabs, and the opaque 8x8x8 head overlay gives 384
\* slabs, 9216 vertices and 13824 indices.  The returned geometry is null
\* exactly when no pair is occupied, and has 24 vertices per occupied pair.
C1_OneSlabPerOccupiedTexel ==
    vmode = "layer" =>
        /\ \A n \in 1..Len(vsampled) :
              InAtlas(vsampled[n].u, vsampled[n].v) =>
                  (vsampled[n].hit <=> CanvasAlpha(vtex, vsampled[n].u, vsampled[n].v) > 0)
        /\ Cardinality(SampledTexels) = Len(vsampled)
        /\ SampledTexels \subseteq FaceTexels(vdef)
        /\ vpc \in {"return", "done"} => SampledTexels = FaceTexels(vdef)
        /\ Len(vbuf.positions) = 3 * 24 * Len(Hits)
        /\ \A n \in 1..Len(Hits) :
              /\ vbuf.uvs[48 * (n - 1) + 1] = 2 * Hits[n].u + 1
              /\ vbuf.uvs[48 * (n - 1) + 2] = 128 - (2 * Hits[n].v + 1)
        /\ (vpc \in {"return", "done"} /\ FootprintOpaque) =>
              Len(Hits) = 2 * (vdef.w * vdef.h) + 2 * (vdef.d * vdef.h)
                                  + 2 * (vdef.w * vdef.d)
        /\ vpc = "done" =>
              /\ vresult = Null <=> layerSlabCount(<<vtex>>, vdef) = 0
              /\ vresult # Null =>
                    Len(vresult.position) = 3 * CUBE_VERTS * layerSlabCount(<<vtex>>, vdef)
        /\ (vpc = "done" /\ vdef = HeadOuterDef /\ vtex = SkinTex("opaque")) =>
              /\ Len(Hits) = 384
              /\ vresult.kind = "geometry"
              /\ Len(vresult.position) = 3 * 9216
              /\ Len(vresult.index) = 13824

\* C1 witness: a fully opaque 2x2x1 footprint inside the atlas has been
\* voxelized into 2(2*2)+2(1*2)+2(2*1) = 16 slabs
C1_Witness ==
    /\ vmode = "layer" /\ vpc = "done"
    /\ vtex = SkinTex("opaque") /\ vdef.ax = 40 /\ vdef.w = 2 /\ vdef.h = 2 /\ vdef.d = 1
    /\ FootprintOpaque
    /\ Len(Hits) = 16
    /\ vresult # Null

\* C2: ItemFactory.generateMesh emits exactly one unit cube for each texel
\* with alpha > 10 and none for alpha <= 10; a texel with alpha 1..10 gives
\* no cube on the item path and a slab on the skin-layer path.
C2_ItemThreshold ==
    /\ vmode = "item" =>
          /\ \A n \in 1..Len(vsampled) :
                vsampled[n].hit <=> ImageAlpha(vtex, vsampled[n].u, vsampled[n].v) > 10
          /\ Cardinality(SampledTexels) = Len(vsampled)
          /\ vpc \in {"return", "done"} =>
                SampledTexels = { <<0, x, y>> : x \in 0..(vtex.w - 1), y \in 0..(vtex.h - 1) }
          /\ Len(vgeos) = Len(Hits)
          /\ \A n \in 1..Len(Hits) :
                vgeos[n].uv = <<2 * Hits[n].u + 1, 2 * vtex.h - (2 * Hits[n].v + 1)>>
          /\ vpc = "done" =>
                LET occ == { t \in (0..(vtex.w - 1)) \X (0..(vtex.h - 1)) :
                               ImageAlpha(vtex, t[1], t[2]) > 10 }
                IN  IF occ = {} THEN vresult = Null
                    ELSE /\ vresult.kind = "mesh"
                         /\ Len(vresult.cubes) = Cardinality(occ)
                         /\ vresult.nVerts = 24 * Cardinality(occ)
    /\ vmode = "layer" =>
          \A n \in 1..Len(vsampled) :
              (/\ InAtlas(vsampled[n].u, vsampled[n].v)
               /\ CanvasAlpha(vtex, vsampled[n].u, vsampled[n].v) \in 1..10) => vsampled[n].hit

\* C2 witness: a 2x2 sprite with alphas 0, 1, 10, 11 has been meshed: one cube
C2_Witness ==
    /\ vmode = "item" /\ vpc = "done"
    /\ vtex = [w |-> 2, h |-> 2, pat |-> "mixed"]
    /\ vresult.kind = "mesh" /\ Len(vresult.cubes) = 1

\* C3: after k emitted slabs the buffers hold 24k vertices and 36k indices
\* (12k triangles), every index is below the vertex count, and the indices of
\* slab m (0-based) are the cube pattern plus 24m.
C3_BufferInvariant ==
    vmode = "layer" =>
        LET k == Len(Hits)
        IN  /\ vbuf.vertexOffset = 24 * k
            /\ Len(vbuf.positions) = 3 * (24 * k)
            /\ Len(vbuf.normals) = 3 * (24 * k)
            /\ Len(vbuf.uvs) = 2 * (24 * k)
            /\ Len(vbuf.indices) = 36 * k
            /\ Len(vbuf.indices) = 3 * (12 * k)
            /\ \A n \in 1..Len(vbuf.indices) :
                  vbuf.indices[n] >= 0 /\ vbuf.indices[n] < Len(vbuf.positions) \div 3
            /\ \A m \in 0..(k - 1) : \A n \in 1..36 :
                  vbuf.indices[36 * m + n] = CubeIndices[n] + 24 * m

\* C3 witness: mid-loop, with at least two slabs emitted
C3_Witness ==
    /\ vmode = "layer" /\ vpc = "loop"
    /\ Len(Hits) >= 2
    /\ Len(vbuf.indices) >= 72

\* the six atlas rectangles [x0, y0, w, h] the claim names, by face number
ClaimRects(def) ==
    << [x0 |-> def.ax + def.d,                 y0 |-> def.ay + def.d, w |-> def.w, h |-> def.h],
       [x0 |-> def.ax + 2 * def.d + def.w,     y0 |-> def.ay + def.d, w |-> def.w, h |-> def.h],
       [x0 |-> def.ax,                         y0 |-> def.ay + def.d, w |-> def.d, h |-> def.h],
       [x0 |-> def.ax + def.d + def.w,         y0 |-> def.ay + def.d, w |-> def.d, h |-> def.h],
       [x0 |-> def.ax + def.d,                 y0 |-> def.ay,         w |-> def.w, h |-> def.d],
       [x0 |-> def.ax + def.d + def.w,         y0 |-> def.ay,         w |-> def.w, h |-> def.d] >>

RectCells(r) == (r.x0..(r.x0 + r.w - 1)) \X (r.y0..(r.y0 + r.h - 1))

\* C10: createVoxelLayer samples exactly the six sub-rects front (ax+d, ay+d)
\* w x h, back (ax+2d+w, ay+d) w x h, left (ax, ay+d) d x h, right
\* (ax+d+w, ay+d) d x h, top (ax+d, ay) w x d, bottom (ax+d+w, ay) w x d; they
\* are pairwise disjoint, no texel (and no alpha byte) is read twice, and the
\* byte read for an atlas texel (u, v) is the alpha byte of that texel.
C10_FaceSubRects ==
    vmode = "layer" =>
        LET rs == ClaimRects(vdef)
            cellsOf(fi) == { <<vsampled[n].u, vsampled[n].v>> :
                               n \in { m \in 1..Len(vsampled) : vsampled[m].f = fi } }
        IN  /\ \A fi \in 1..6 : cellsOf(fi) \subseteq RectCells(rs[fi])
            /\ vpc \in {"return", "done"} => \A fi \in 1..6 : cellsOf(fi) = RectCells(rs[fi])
            /\ \A fi \in 1..6 : \A fk \in 1..6 :
                  fi # fk => RectCells(rs[fi]) \cap RectCells(rs[fk]) = {}
            /\ Cardinality({ <<vsampled[n].u, vsampled[n].v>> : n \in 1..Len(vsampled) })
                  = Len(vsampled)
            /\ Cardinality({ vsampled[n].k : n \in 1..Len(vsampled) }) = Len(vsampled)
            /\ \A n \in 1..Len(vsampled) :
                  /\ vsampled[n].k % 4 = 3
                  /\ InAtlas(vsampled[n].u, vsampled[n].v) =>
                        /\ (vsampled[n].k \div 4) % ATLAS = vsampled[n].u
                        /\ (vsampled[n].k \div 4) \div ATLAS = vsampled[n].v

\* C10 witness: a box with w # d away from the atlas origin has been sampled
C10_Witness ==
    /\ vmode = "layer" /\ vpc = "done"
    /\ vdef.ax = 40 /\ vdef.ay = 32
    /\ vdef.w = 1 /\ vdef.h = 2 /\ vdef.d = 2
    /\ Len(vsampled) = 16

\* the coordinates on axis a (1 = x, 2 = y, 3 = z) of the 24 vertices of the
\* n-th emitted slab, in quarter units
SlabCoords(n, a) ==
    { vbuf.positions[72 * (n - 1) + 3 * (m - 1) + a] : m \in 1..CUBE_VERTS }

\* the axis a face is extruded along, the side of the box it lies on, and the
\* box dimension along that axis
ExtrusionAxis(fi) == CASE fi \in {1, 2} -> 3 [] fi \in {3, 4} -> 1 [] fi \in {5, 6} -> 2

FaceSign(fi) == IF fi \in {1, 4, 5} THEN 1 ELSE -1

FaceDim(def, fi) ==
    CASE fi \in {1, 2} -> def.d [] fi \in {3, 4} -> def.w [] fi \in {5, 6} -> def.h

\* slab n is the unit cube scaled by 0.5 along the extrusion axis of its face
\* only, centred at sign * (dim/2 + 0.25) on that axis
SlabShaped(n) ==
    LET fi  == Hits[n].f
        ea  == ExtrusionAxis(fi)
        sg  == FaceSign(fi)
        dim == FaceDim(vdef, fi)
    IN  \A a \in 1..3 :
          \E c \in { (SetMin(SlabCoords(n, a)) + SetMax(SlabCoords(n, a))) \div 2 } :
             /\ a = ea => /\ c = sg * (2 * dim + 1)
                          /\ SlabCoords(n, a) = {sg * 2 * dim, sg * (2 * dim + 2)}
             /\ a # ea => SlabCoords(n, a) = {c - 2, c + 2}
             /\ \A m \in 1..CUBE_VERTS :
                   vbuf.positions[72 * (n - 1) + 3 * (m - 1) + a]
                     = c + CubeVertices[3 * (m - 1) + a] * (IF a = ea THEN 1 ELSE 2)

\* C11: every emitted slab is the unit cube scaled by 0.5 along its face's
\* extrusion axis (z for front/back, x for left/right, y for top/bottom) and
\* by 1 along the other two, centred on the extrusion axis at
\* +(dim/2 + 0.25) for the positive face and -(dim/2 + 0.25) for the negative
\* one: it spans from the inner box surface (dim/2) to 0.5 outside it.
\* Checked for the slab emitted last in every state, and for all slabs of a
\* finished small box.
C11_SlabShape ==
    vmode = "layer" =>
        /\ Len(Hits) > 0 => SlabShaped(Len(Hits))
        /\ (vpc = "done" /\ Len(Hits) <= 6 * MaxDim * MaxDim) =>
              \A n \in 1..Len(Hits) : SlabShaped(n)

\* C11 witness: a 1x2x2 box with all six faces occupied has been voxelized
C11_Witness ==
    /\ vmode = "layer" /\ vpc = "done"
    /\ vdef = [ax |-> 40, ay |-> 32, w |-> 1, h |-> 2, d |-> 2]
    /\ { Hits[n].f : n \in 1..Len(Hits) } = 1..6
    /\ SlabCoords(1, 3) = {4, 6}

\* nearest-neighbour sampling: the texel column floor(U * size) for U = num/den
\* and the texel row floor((1 - V) * size) for V = num/den
NearestColumn(num, den, size) == (num * size) \div den

NearestRow(num, den, size) == ((den - num) * size) \div den

\* the 24 vertices of slab n all carry the UV ((u+0.5)/64, 1-(v+0.5)/64) of
\* the slab's texel, and sampling at it gives that texel back
SlabUV(n) ==
    /\ \A m \in 1..CUBE_VERTS :
          /\ vbuf.uvs[48 * (n - 1) + 2 * (m - 1) + 1] = 2 * Hits[n].u + 1
          /\ vbuf.uvs[48 * (n - 1) + 2 * (m - 1) + 2] = 2 * ATLAS - (2 * Hits[n].v + 1)
    /\ NearestColumn(vbuf.uvs[48 * (n - 1) + 1], 2 * ATLAS, ATLAS) = Hits[n].u
    /\ NearestRow(vbuf.uvs[48 * (n - 1) + 2], 2 * ATLAS, ATLAS) = Hits[n].v
    /\ InAtlas(Hits[n].u, Hits[n].v) =>
          /\ (Hits[n].k \div 4) % ATLAS = NearestColumn(vbuf.uvs[48 * (n - 1) + 1], 2 * ATLAS, ATLAS)
          /\ (Hits[n].k \div 4) \div ATLAS = NearestRow(vbuf.uvs[48 * (n - 1) + 2], 2 * ATLAS, ATLAS)
          /\ CanvasAlpha(vtex, Hits[n].u, Hits[n].v) > 0

\* C12: all 24 vertices of a slab carry the texel-centred UV of its source
\* texel, ((u+0.5)/64, 1-(v+0.5)/64), and a cube of an item carries
\* ((x+0.5)/W, 1-(y+0.5)/H); nearest-neighbour sampling at that UV
\* (floor(U*size), floor((1-V)*size)) gives the source texel back, for every
\* occupied texel.
C12_UVRoundTrip ==
    /\ vmode = "layer" =>
          /\ Len(Hits) > 0 => SlabUV(Len(Hits))
          /\ vpc = "done" => \A n \in 1..Len(Hits) : SlabUV(n)
    /\ vmode = "item" =>
          /\ Len(vgeos) = Len(Hits)
          /\ \A n \in 1..Len(Hits) :
                /\ vgeos[n].uv = <<2 * Hits[n].u + 1, 2 * vtex.h - (2 * Hits[n].v + 1)>>
                /\ NearestColumn(vgeos[n].uv[1], 2 * vtex.w, vtex.w) = Hits[n].u
                /\ NearestRow(vgeos[n].uv[2], 2 * vtex.h, vtex.h) = Hits[n].v
                /\ ImageAlpha(vtex, NearestColumn(vgeos[n].uv[1], 2 * vtex.w, vtex.w),
                              NearestRow(vgeos[n].uv[2], 2 * vtex.h, vtex.h)) > 10

\* C12 witness: a slab was emitted for a texel away from the atlas origin
C12_Witness ==
    /\ vmode = "layer" /\ vpc = "done"
    /\ Len(Hits) > 0
    /\ Hits[Len(Hits)].u > 40 /\ Hits[Len(Hits)].v >= 32
    /\ InAtlas(Hits[Len(Hits)].u, Hits[Len(Hits)].v)

\* C13: generateMesh places the cube of occupied texel (x, y) of a W x H
\* sprite at centre (x - W/2, (H-1-y) - H/2, 0) (half units here): a higher
\* texture row is placed lower, distinct texels get distinct centres; the
\* merged geometry keeps the cubes' relative places, and the mesh is scaled
\* uniformly by 16 / max(W, H).  A 1 x 1 opaque sprite gives one cube of 24
\* vertices and 36 indices at the origin, scale 16.
C13_ItemPlacement ==
    vmode = "item" =>
       /\ Len(vgeos) = Len(Hits)
       /\ \A n \in 1..Len(Hits) :
             vgeos[n].c = <<2 * Hits[n].u - vtex.w,
                            2 * (vtex.h - 1 - Hits[n].v) - vtex.h, 0>>
       /\ \A m, n \in 1..Len(Hits) :
             /\ Hits[m].v < Hits[n].v => vgeos[m].c[2] > vgeos[n].c[2]
             /\ Hits[m].v = 0 => vgeos[m].c[2] >= vgeos[n].c[2]
             /\ m # n => vgeos[m].c # vgeos[n].c
       /\ (vpc = "done" /\ Len(vgeos) > 0) =>
             /\ vresult.kind = "mesh"
             /\ vresult.scale = <<16, IF vtex.w >= vtex.h THEN vtex.w ELSE vtex.h>>
             /\ vresult.nVerts = 24 * Len(Hits)
             /\ vresult.nIndices = 36 * Len(Hits)
             /\ Len(vresult.cubes) = Len(vgeos)
             /\ \A m, n \in 1..Len(vgeos) : \A a \in 1..3 :
                   vresult.cubes[m].c[a] - vresult.cubes[n].c[a]
                      = vgeos[m].c[a] - vgeos[n].c[a]
             /\ (vtex.w = 1 /\ vtex.h = 1) =>
                   /\ Len(vresult.cubes) = 1
                   /\ vresult.cubes[1].c = <<0, 0, 0>>
                   /\ vresult.nVerts = 24 /\ vresult.nIndices = 36
                   /\ vresult.scale = <<16, 1>>

\* C13 witness: a 2 x 2 sprite with cubes in both rows was meshed
C13_Witness ==
    /\ vmode = "item" /\ vpc = "done"
    /\ vtex.w = 2 /\ vtex.h = 2
    /\ \E m, n \in 1..Len(Hits) : Hits[m].v = 0 /\ Hits[n].v = 1
    /\ vresult.kind = "mesh"

\* the UV pairs of one face of a box at (uX, uY) of size uW x uH, as exact
\* fractions of an atlas of imgW x imgH: <<uNum, vNum>> over <<imgW, imgH>>
FaceRect(uX, uY, uW, uH, flipY, imgH) ==
    LET v0 == IF flipY THEN imgH - uY ELSE imgH - uY - uH
        v1 == IF flipY THEN imgH - uY - uH ELSE imgH - uY
    IN  << <<uX, v1>>, <<uX + uW, v1>>, <<uX, v0>>, <<uX + uW, v0>> >>

\* the six face rectangles of the cube net of a box anchored at (x, y) with
\* dims (w, h, d): right, left, top, bottom, front, back
CubeNet(x, y, w, h, d, imgH) ==
    FaceRect(x + d + w, y + d, d, h, FALSE, imgH)
    \o FaceRect(x, y + d, d, h, FALSE, imgH)
    \o FaceRect(x + d, y, w, d, FALSE, imgH)
    \o FaceRect(x + d + w, y, w, d, TRUE, imgH)
    \o FaceRect(x + d, y + d, w, h, FALSE, imgH)
    \o FaceRect(x + d + w + d, y + d, w, h, FALSE, imgH)

\* the uv attribute uv is the cube net normalised by imgW x imgH
NormalisedBy(uv, net, imgW, imgH) ==
    /\ Len(uv.xy) = CUBE_VERTS
    /\ \A n \in 1..CUBE_VERTS :
          /\ uv.xy[n][1] * imgW = net[n][1] * uv.den[1]
          /\ uv.xy[n][2] * imgH = net[n][2] * uv.den[2]

\* the box geometry of the cape's main mesh
CapeGeometry == heap[heap[FirstMesh(heap, skinModel.parts["cape"])].geometry]

\* the inner box geometry of body part number n of the list PartDefs
InnerGeometry(def) ==
    heap[heap[heap[heap[skinModel.parts[def.name]].children[1]].children[1]].geometry]

\* C14 (as claimed): applySkinUVs normalises the six face rectangles against
\* the atlas size its caller supplies, 64 x 64 when none is supplied: the
\* inner boxes of the body parts are normalised by 64 x 64, and the cape,
\* whose call supplies 64 x 32, has its V coordinates normalised by 32.
C14_AsClaimed ==
    /\ \A isSlim \in BOOLEAN : \A n \in 1..Len(PartDefs(isSlim)) :
          \E def \in { PartDefs(isSlim)[n] } :
             (/\ HasPart(skinModel, def.name)
              /\ last.op = "build" /\ last.arg.isSlim = isSlim) =>
                NormalisedBy(InnerGeometry(def).uv,
                             CubeNet(def.uv.inner.x, def.uv.inner.y,
                                     def.size.w, def.size.h, def.size.d, 64),
                             64, 64)
    /\ HasPart(skinModel, "cape") =>
          NormalisedBy(CapeGeometry.uv, CubeNet(0, 0, 10, 16, 1, 32), 64, 32)

\* C14 (what the code does): every call is normalised by 64 x 64, the cape's
\* included; the inner boxes of the body parts are as claimed
C14_Always64 ==
    /\ \A isSlim \in BOOLEAN : \A n \in 1..Len(PartDefs(isSlim)) :
          \E def \in { PartDefs(isSlim)[n] } :
             (/\ HasPart(skinModel, def.name)
              /\ last.op = "build" /\ last.arg.isSlim = isSlim) =>
                NormalisedBy(InnerGeometry(def).uv,
                             CubeNet(def.uv.inner.x, def.uv.inner.y,
                                     def.size.w, def.size.h, def.size.d, 64),
                             64, 64)
    /\ HasPart(skinModel, "cape") =>
          /\ NormalisedBy(CapeGeometry.uv, CubeNet(0, 0, 10, 16, 1, 64), 64, 64)
          /\ ~NormalisedBy(CapeGeometry.uv, CubeNet(0, 0, 10, 16, 1, 32), 64, 32)

\* C14 witness: a model with body parts and a cape
C14_Witness ==
    /\ HasPart(skinModel, "cape") /\ HasPart(skinModel, "head")
    /\ last.op = "setCape"

\* C15 (as claimed): createVoxelLayer guards against an invalid atlas
\* region: a texel (u, v) outside the 64 x 64 atlas is never taken as
\* occupied, neither directly nor by its flat index (v*64+u) wrapping into
\* another row.
C15_AsClaimed ==
    (vmode = "layer" /\ Len(vsampled) > 0) =>
        \E s \in { vsampled[Len(vsampled)] } :
            ~InAtlas(s.u, s.v) => ~s.hit

\* C15 witness: a texel right of the atlas was read through the flat index
\* of the first texel of the next row and taken as occupied
C15_Witness ==
    /\ vmode = "layer" /\ Len(vsampled) > 0
    /\ \E s \in { vsampled[Len(vsampled)] } :
          /\ s.u >= ATLAS /\ s.v < ATLAS - 1
          /\ s.hit
          /\ (s.k \div 4) % ATLAS = s.u - ATLAS
          /\ (s.k \div 4) \div ATLAS = s.v + 1

\* C15: a texel below the atlas (v >= 64) reads past the end of the pixel
\* data, which is undefined and never greater than 0: no slab is emitted
C15_BelowAtlasEmpty ==
    (vmode = "layer" /\ Len(vsampled) > 0) =>
        \E s \in { vsampled[Len(vsampled)] } :
            (s.v >= ATLAS /\ s.u < ATLAS) => ~s.hit

\* C16: createVoxelLayer is history-independent: whatever the scratch canvas
\* held when the call began, the canvas it reads holds the call's texture
\* alone, every texel it tests is judged as on a fresh canvas, every slab is
\* the one a fresh canvas gives, and the call returns null or the vertex and
\* index counts that the texture and the definition alone determine.
C16_HistoryIndependent ==
    (vmode = "layer" /\ vpc # "begin") =>
        /\ cachedCanvas = [created |-> TRUE, drawn |-> <<vtex>>]
        /\ Len(vsampled) > 0 =>
              \E s \in { vsampled[Len(vsampled)] } :
                 /\ s.hit = layerOccupied(<<vtex>>, faces(vdef)[s.f], s.i, s.j)
                 /\ s.hit =>
                       \E b \in { layerBody(EmptyBuffers, <<vtex>>, vdef, s.f, s.i, s.j) } :
                          /\ Len(vbuf.positions) >= 72
                          /\ \A n \in 1..72 :
                                vbuf.positions[Len(vbuf.positions) - 72 + n] = b.positions[n]
        /\ vpc = "done" =>
              \E c \in { layerSlabCount(<<vtex>>, vdef) } :
                 /\ vresult = Null <=> c = 0
                 /\ c > 0 => /\ Len(vresult.position) = 3 * CUBE_VERTS * c
                             /\ Len(vresult.index) = CUBE_INDICES * c

\* C16 witness: a call on a blank texture returned null although the canvas
\* held an opaque texture from the call before
C16_Witness ==
    /\ vmode = "layer" /\ vpc = "done"
    /\ vprior = [created |-> TRUE, drawn |-> <<SkinTex("opaque")>>]
    /\ vtex.pat = "blank"
    /\ vresult = Null

(***************************************************************************)
(* Properties of the HistoryManager (checked under SpecHistory).           *)
(***************************************************************************)
\* a value with every negative zero replaced by zero: two values are the
\* same to JavaScript's === on numbers exactly when these agree
RECURSIVE SameForm(_)
SameForm(value) ==
    CASE value.t = "number" -> IF value.s = "-0" THEN JsNum(0) ELSE value
      [] value.t = "array"  -> JsArr([n \in 1..Len(value.els) |-> SameForm(value.els[n])])
      [] value.t = "object" ->
            JsObj([n \in 1..Len(value.props) |->
                     <<value.props[n][1], SameForm(value.props[n][2])>>])
      [] OTHER -> value

SameValue(a, b) == SameForm(a) = SameForm(b)

\* C17: with a non-empty undo stack and current state c, undo(c) applies the
\* most recently pushed snapshot p, and a following redo(p) applies c again
\* and leaves the undo and the redo stack as they were before the undo;
\* undo on an empty undo stack and redo on an empty redo stack apply nothing
\* and change nothing.
C17_UndoRedoRoundTrip ==
    /\ last.op = "undo" =>
          IF last.before.undoStack = <<>>
          THEN last.applied = NotApplied /\ editor = last.before
          ELSE /\ last.applied # NotApplied
               /\ JSONstringify(last.applied)
                     = last.before.undoStack[Len(last.before.undoStack)]
               /\ last.prev.op = "pushState" => SameValue(last.applied, last.prev.arg)
    /\ last.op = "redo" =>
          /\ last.before.redoStack = <<>> =>
                last.applied = NotApplied /\ editor = last.before
          /\ (last.prev.op = "undo" /\ last.prev.before.undoStack # <<>>) =>
                /\ SameValue(last.applied, last.prev.arg)
                /\ last.arg = last.prev.applied =>
                      /\ editor.undoStack = last.prev.before.undoStack
                      /\ editor.redoStack = last.prev.before.redoStack

\* C17 witness: after two pushes, undo(c) with a c that holds a negative
\* zero was followed by redo(p) of the snapshot the undo applied
C17_Witness ==
    /\ last.op = "redo" /\ last.prev.op = "undo"
    /\ Len(last.prev.before.undoStack) = 2
    /\ last.arg = last.prev.applied
    /\ last.prev.arg # last.applied
    /\ SameValue(last.prev.arg, last.applied)
    /\ Len(editor.undoStack) = 2 /\ editor.redoStack = <<>>

\* the transform of the object a pose entry is for
PoseSubject(name) ==
    IF name = "root" THEN heap[skinModel.playerGroup] ELSE heap[skinModel.parts[name]]

\* the pose entry exports key k only when the component is not the default
NoDefault(data, k, default) == k \in DOMAIN data => data[k] # default

\* C18 (as claimed): getPose() does not export default values: for every
\* part and for the root, rot is exported only when it is not (0,0,0), pos
\* only when it is not (0,0,0), scl only when it is not (1,1,1), and a part
\* whose components are all default has no entry.
C18_AsClaimed ==
    \E pose \in { getPose(World) } :
        /\ \A name \in DOMAIN pose :
              /\ NoDefault(pose[name], "rot", <<0, 0, 0>>)
              /\ NoDefault(pose[name], "pos", <<0, 0, 0>>)
              /\ NoDefault(pose[name], "scl", <<1000, 1000, 1000>>)
        /\ \A name \in DOMAIN skinModel.parts :
              (/\ PoseSubject(name).rotation = <<0, 0, 0>>
               /\ PoseSubject(name).position = <<0, 0, 0>>
               /\ PoseSubject(name).scale = <<1000, 1000, 1000>>) => name \notin DOMAIN pose

\* C18 (what the code does): rot and scl of a part and all three components
\* of the root are exported only when not default, and then with the
\* object's value; pos of a part is exported always, so every part has an
\* entry
C18_PosAlways ==
    \E pose \in { getPose(World) } :
        /\ \A name \in DOMAIN pose :
              /\ NoDefault(pose[name], "rot", <<0, 0, 0>>)
              /\ NoDefault(pose[name], "scl", <<1000, 1000, 1000>>)
              /\ name = "root" => NoDefault(pose[name], "pos", <<0, 0, 0>>)
              /\ "rot" \in DOMAIN pose[name] => pose[name].rot = PoseSubject(name).rotation
              /\ "pos" \in DOMAIN pose[name] => pose[name].pos = PoseSubject(name).position
              /\ "scl" \in DOMAIN pose[name] => pose[name].scl = PoseSubject(name).scale
        /\ \A name \in DOMAIN skinModel.parts :
              name \in DOMAIN pose /\ "pos" \in DOMAIN pose[name]

\* C18 witness: a built model whose head has every component at its default
C18_Witness ==
    /\ HasPart(skinModel, "head") /\ HasPart(skinModel, "cape")
    /\ heap[skinModel.parts["head"]].position = <<0, 0, 0>>
    /\ heap[skinModel.parts["head"]].rotation = <<0, 0, 0>>
    /\ heap[skinModel.parts["head"]].scale = <<1000, 1000, 1000>>
    /\ "rot" \in DOMAIN getPose(World)["cape"]

\* the centre of slab n, from the extent of its 24 vertices
SlabCentre(n) ==
    [a \in 1..3 |-> (SetMin(SlabCoords(n, a)) + SetMax(SlabCoords(n, a))) \div 2]

\* the cell centres along an edge of n cells, k - n/2 + 0.5 in quarter units
Grid(n) == { 4 * k - 2 * n + 2 : k \in 0..(n - 1) }

\* the cells of box face fi: the slab centres that cover it
FaceCells(def, fi) ==
    CASE fi = 1 -> Grid(def.w) \X Grid(def.h) \X {2 * def.d + 1}
      [] fi = 2 -> Grid(def.w) \X Grid(def.h) \X {-2 * def.d - 1}
      [] fi = 3 -> {-2 * def.w - 1} \X Grid(def.h) \X Grid(def.d)
      [] fi = 4 -> {2 * def.w + 1} \X Grid(def.h) \X Grid(def.d)
      [] fi = 5 -> Grid(def.w) \X {2 * def.h + 1} \X Grid(def.d)
      [] fi = 6 -> Grid(def.w) \X {-2 * def.h - 1} \X Grid(def.d)

\* the slab emitted for texel (i, j) of face fi sits where the claim says
CellOfTexel(n) ==
    \E s \in { Hits[n] } : \E c \in { SlabCentre(n) } :
        /\ s.f \in 1..4 => c[2] = 4 * (vdef.h - 1 - s.j) - 2 * vdef.h + 2
        /\ s.f = 1 => c[1] = 4 * s.i - 2 * vdef.w + 2
        /\ s.f = 2 => c[1] = -(4 * s.i - 2 * vdef.w + 2)
        /\ s.f = 3 => c[3] = 4 * s.i - 2 * vdef.d + 2
        /\ s.f = 4 => c[3] = -(4 * s.i - 2 * vdef.d + 2)
        /\ s.f \in {5, 6} => /\ c[1] = 4 * s.i - 2 * vdef.w + 2
                             /\ c[3] = 4 * s.j - 2 * vdef.d + 2
        /\ <<c[1], c[2], c[3]>> \in FaceCells(vdef, s.f)

\* C19: each face maps the texels (i, j) of its sub-rect one-to-one onto the
\* cells of that box face: on the side faces row j is at
\* y = (h-1-j) - h/2 + 0.5; front and left put column i at i - dim/2 + 0.5,
\* back and right at the negative of it; top and bottom put column i at
\* x = i - w/2 + 0.5 and row j at z = j - d/2 + 0.5, a row order opposite to
\* the side faces'.  Distinct texels of a face get distinct cells, and an
\* opaque footprint covers every cell of every face.
C19_TexelToCell ==
    vmode = "layer" =>
       /\ Len(Hits) > 0 => CellOfTexel(Len(Hits))
       /\ (vpc = "done" /\ Len(Hits) <= 6 * MaxDim * MaxDim) =>
             /\ \A n \in 1..Len(Hits) : CellOfTexel(n)
             /\ \A m, n \in 1..Len(Hits) :
                   (m # n /\ Hits[m].f = Hits[n].f) => SlabCentre(m) # SlabCentre(n)
             /\ FootprintOpaque =>
                   \A fi \in 1..6 :
                      { <<SlabCentre(n)[1], SlabCentre(n)[2], SlabCentre(n)[3]>> :
                          n \in { m \in 1..Len(Hits) : Hits[m].f = fi } }
                        = FaceCells(vdef, fi)

\* C19 witness: an opaque 2 x 2 x 2 footprint inside the atlas was voxelized:
\* every face has two rows and two columns
C19_Witness ==
    /\ vmode = "layer" /\ vpc = "done"
    /\ vdef = [ax |-> 40, ay |-> 32, w |-> 2, h |-> 2, d |-> 2]
    /\ FootprintOpaque
    /\ Len(Hits) = 24

\* slab n of the direct-buffer version as the merged version describes a
\* box: centre, per-axis scale (half the extent of its vertices), UV
BufferSlab(n) ==
    [c     |-> <<SlabCentre(n)[1], SlabCentre(n)[2], SlabCentre(n)[3]>>,
     scale |-> [a \in 1..3 |-> (SetMax(SlabCoords(n, a)) - SetMin(SlabCoords(n, a))) \div 2],
     uv    |-> <<vbuf.uvs[48 * (n - 1) + 1], vbuf.uvs[48 * (n - 1) + 2]>>]

\* C20: for every atlas content and layer definition, the direct-buffer
\* createVoxelLayer emits the slabs (centre, per-axis scale, UV) of the
\* clone-and-merge createVoxelLayer, one for one and in the same order, so
\* the same multiset, and returns null exactly when that version does.
C20_SameAsMerged ==
    (vmode = "layer" /\ vpc = "done") =>
        \E merged \in { createVoxelLayerMerged(vtex, vdef) } :
            /\ vresult = Null <=> merged = Null
            /\ merged # Null =>
                  /\ Len(merged.boxes) = Len(Hits)
                  /\ Len(vresult.position) = 3 * CUBE_VERTS * Len(merged.boxes)
                  /\ \A n \in 1..Len(Hits) : BufferSlab(n) = merged.boxes[n]

\* C20 witness: a mixed texture gave both versions the same non-empty proper
\* part of a 2 x 2 x 2 footprint
C20_Witness ==
    /\ vmode = "layer" /\ vpc = "done"
    /\ vtex.pat = "mixed"
    /\ vdef.w = 2 /\ vdef.h = 2 /\ vdef.d = 2
    /\ vresult # Null
    /\ Len(Hits) < 24
    /\ createVoxelLayerMerged(vtex, vdef) # Null

\* C23: pushState(s) adds no entry when s serialises equal to the newest undo
\* entry; otherwise s becomes the newest entry and the oldest one is dropped
\* when the stack would exceed 50; either way the redo stack is emptied; and
\* after any sequence of pushState, undo and redo the undo stack holds at most
\* 50 entries.
C23_PushState ==
    /\ Len(editor.undoStack) <= 50
    /\ last.op = "pushState" =>
          LET before == last.before.undoStack
              s      == JSONstringify(last.arg)
              n      == Len(before)
          IN  /\ editor.redoStack = <<>>
              /\ IF n > 0 /\ before[n] = s
                 THEN editor.undoStack = before
                 ELSE /\ editor.undoStack[Len(editor.undoStack)] = s
                      /\ IF n + 1 > 50
                         THEN editor.undoStack = Append(Tail(before), s)
                         ELSE editor.undoStack = Append(before, s)

\* a full stack took a new state and dropped its oldest entry
C23_Witness ==
    /\ last.op = "pushState"
    /\ Len(last.before.undoStack) = 50
    /\ Len(editor.undoStack) = 50
    /\ editor.undoStack[50] = JSONstringify(last.arg)
    /\ editor.undoStack[1] = last.before.undoStack[2]
    /\ editor.undoStack[1] # last.before.undoStack[1]

(***************************************************************************)
(* Properties of the viewer (checked under Spec).                          *)
(***************************************************************************)
\* the player group and everything below it
PlayerTree == Range(Traverse(heap, skinModel.playerGroup))

\* the uniforms a layer mesh renders with
Uniforms(mesh) == heap[heap[mesh].material].uniforms

\* the shell sets of the items in the list, and every tracked shell set
ItemSets == [n \in 1..Len(items) |-> heap[items[n]].userData.glowLayers]

AllSets == skinModel.glowMeshes \o ItemSets

\* the overlay box of a part definition, as an anchor and a size
OverlayBox(def) ==
    [ax |-> def.uv.outer.x, ay |-> def.uv.outer.y,
     w |-> def.size.w, h |-> def.size.h, d |-> def.size.d]

\* the texels of the six sub-rects of a box whose alpha is > 0
OccupiedCells(img, box) ==
    UNION { { <<fi, c[1], c[2]>> :
                c \in { t \in RectCells(ClaimRects(box)[fi]) :
                          CanvasAlpha(img, t[1], t[2]) > 0 } } : fi \in 1..6 }

\* C4: when no texel of a part's six sub-rects has alpha > 0, createVoxelLayer
\* returns null and the part built by createBodyPart has no outer mesh, in the
\* part or in bodyMeshes, but has the inner box and 20 shell layers whose
\* geometry is the inner box alone (24 vertices); a part with occupied texels
\* has the outer mesh and shells of inner box plus slabs.
C4_EmptyOverlayPart ==
    (last.op = "build" /\ last.arg.renderVoxels) =>
        \A n \in 1..6 :
            LET def    == PartDefs(last.arg.isSlim)[n]
                occ    == Cardinality(OccupiedCells(last.arg.img, OverlayBox(def)))
                part   == skinModel.parts[def.name]
                kids   == heap[heap[part].children[1]].children
                layers == skinModel.glowMeshes[n]
                inPart == { m \in Range(skinModel.bodyMeshes) :
                              m \in Range(Traverse(heap, part)) }
                glowGeo == heap[heap[layers[1]].geometry]
            IN  /\ Len(layers) = LAYERS_COUNT
                /\ heap[kids[1]].kind = "Mesh"
                /\ heap[heap[kids[1]].geometry].src = "box"
                /\ heap[heap[kids[1]].geometry].nVerts = 24
                /\ occ = 0 =>
                      /\ createVoxelLayer(last.arg.img, def) = Null
                      /\ Len(kids) = 1 + LAYERS_COUNT
                      /\ \A k \in 1..LAYERS_COUNT : kids[1 + k] = layers[k]
                      /\ inPart = {kids[1]}
                      /\ glowGeo.nVerts = 24 /\ glowGeo.nIndices = 36
                /\ occ > 0 =>
                      /\ Len(kids) = 2 + LAYERS_COUNT
                      /\ heap[heap[kids[2]].geometry].src = "voxel"
                      /\ heap[heap[kids[2]].geometry].nVerts = 24 * occ
                      /\ inPart = {kids[1], kids[2]}
                      /\ glowGeo.nVerts = 24 + 24 * occ

\* C4 witness: a skin whose only overlay is the hat has been built: the head
\* has an outer mesh, the body has none and 21 children
C4_Witness ==
    /\ last.op = "build" /\ last.arg.renderVoxels /\ last.arg.img = SkinTex("hat")
    /\ Len(heap[heap[skinModel.parts["body"]].children[1]].children) = 1 + LAYERS_COUNT
    /\ Len(heap[heap[skinModel.parts["head"]].children[1]].children) = 2 + LAYERS_COUNT
    /\ Len(skinModel.bodyMeshes) = 7

NoItemTexel(img) ==
    \A x \in 0..(img.w - 1) : \A y \in 0..(img.h - 1) : ~(ImageAlpha(img, x, y) > 10)

\* the step in which the texture of a sprite without a texel of alpha > 10
\* finishes loading
EmptySpriteLoaded ==
    /\ Len(loading') < Len(loading)
    /\ last'.op = "itemLoaded"
    /\ Fetch(last'.arg) # Null
    /\ NoItemTexel(Fetch(last'.arg))

\* C5: when no texel of an item sprite has alpha > 10, generateMesh returns
\* null and createFromURL rejects; addItem then adds no mesh to the scene or
\* to the items list and selects nothing.
C5_EmptySpriteRejected ==
    [][ EmptySpriteLoaded =>
          /\ generateMesh(Alloc(World, NewTexture(Fetch(last'.arg))), nextId).mesh = 0
          /\ last'.outcome = "rejected: Error generating geometry"
          /\ items' = items
          /\ heap'[scene].children = heap[scene].children
          /\ editor'.object = editor.object
          /\ fx'.selectedObjects = fx.selectedObjects
          /\ \A id \in nextId..(nextId' - 1) : heap'[id].kind # "Mesh" ]_vars

\* C5 witness: a sprite of alpha 10 everywhere was loaded in a viewer with an
\* editor, and the promise is rejected
C5_Witness ==
    /\ last.op = "itemLoaded" /\ last.arg = "faint.png"
    /\ last.outcome = "rejected: Error generating geometry"
    /\ editor.present
    /\ items = <<>>

\* the ids allocated by the calls before the last build or setCape call
MadeBefore == UNION { made[k].from..made[k].to : k \in 1..(Len(made) - 1) }

\* the tracked collections describe the current build only
CollectionsCurrent ==
    LET cur  == made[Len(made)]
        tree == PlayerTree
    IN  /\ Cardinality(DOMAIN skinModel.parts) = IF "cape" \in DOMAIN skinModel.parts
                                                 THEN 7 ELSE 6
        /\ Len(skinModel.glowMeshes) = Cardinality(DOMAIN skinModel.parts)
        /\ \A name \in DOMAIN skinModel.parts :
              Cardinality({ k \in 1..Len(skinModel.glowMeshes) :
                              Range(skinModel.glowMeshes[k])
                                \subseteq Range(Traverse(heap, skinModel.parts[name])) }) = 1
        /\ \A k \in 1..Len(skinModel.glowMeshes) :
              /\ Len(skinModel.glowMeshes[k]) = LAYERS_COUNT
              /\ Range(skinModel.glowMeshes[k]) \subseteq tree \cap (cur.from..cur.to)
        /\ Range(skinModel.bodyMeshes) \subseteq tree \cap (cur.from..cur.to)
        /\ Cardinality(Range(skinModel.bodyMeshes)) = Len(skinModel.bodyMeshes)
        /\ \A id \in MadeBefore : id \notin tree

\* C6 as the specification states it: after a build, every geometry and
\* material created by an earlier build is disposed
C6_AsClaimed ==
    last.op = "build" =>
        /\ \A id \in MadeBefore :
              heap[id].kind \in {"Geometry", "Material"} => heap[id].disposed
        /\ CollectionsCurrent

\* C6: after a build, whatever builds and cape changes came before, the
\* geometry and the material of every mesh created by an earlier build or
\* setCape are disposed and no object of theirs is left in the player group;
\* glowMeshes holds one 20-layer set per part (6, or 7 with a cape) and
\* bodyMeshes only meshes of this build, all in the player group, whose
\* geometry and material are not disposed.
C6_RebuildReleases ==
    last.op = "build" =>
        /\ \A id \in MadeBefore :
              heap[id].kind = "Mesh" =>
                  /\ heap[heap[id].geometry].disposed
                  /\ heap[heap[id].material].disposed
        /\ CollectionsCurrent
        /\ \A id \in PlayerTree :
              heap[id].kind = "Mesh" =>
                  /\ ~heap[heap[id].geometry].disposed
                  /\ ~heap[heap[id].material].disposed

\* C6 witness: a model with a cape has been rebuilt
C6_Witness ==
    /\ last.op = "build"
    /\ Len(made) = 3 /\ made[1].op = "build" /\ made[2].op = "setCape"
    /\ "cape" \in DOMAIN skinModel.parts
    /\ Len(skinModel.glowMeshes) = 7

\* the owners of shell sets: the parts of the model and the listed items
OwnerSets ==
    { Range(skinModel.glowMeshes[k]) : k \in 1..Len(skinModel.glowMeshes) }

\* C7: every part of the model (cape included) and every listed item has
\* exactly one set of N = 20 shell meshes below it; the layers of a body or
\* cape set carry layer index 0..19 in list order; the 20 meshes of a set
\* share one geometry object, and every layer has a material of its own with
\* its own thickness, opacity and gradientLimit uniforms, shared with no
\* other mesh.
C7_ShellSets ==
    /\ Len(skinModel.glowMeshes) = Cardinality(DOMAIN skinModel.parts)
    /\ \A name \in DOMAIN skinModel.parts :
          { m \in Range(Traverse(heap, skinModel.parts[name])) :
              HasData(heap[m], "isGlow") } \in OwnerSets
    /\ \A k \in 1..Len(skinModel.glowMeshes) : \A n \in 1..Len(skinModel.glowMeshes[k]) :
          heap[skinModel.glowMeshes[k][n]].userData.layerIndex = n - 1
    /\ \A n \in 1..Len(items) :
          /\ HasData(heap[items[n]], "glowLayers")
          /\ { m \in Range(Traverse(heap, items[n])) : HasData(heap[m], "isGlowLayer") }
                = Range(heap[items[n]].userData.glowLayers)
    /\ \A k \in 1..Len(AllSets) :
          LET set == AllSets[k]
          IN  /\ Len(set) = 20
              /\ Len(set) = LAYERS_COUNT
              /\ Cardinality(Range(set)) = LAYERS_COUNT
              /\ \A n \in 1..Len(set) :
                    /\ heap[set[n]].kind = "Mesh"
                    /\ heap[set[n]].geometry = heap[set[1]].geometry
                    /\ heap[heap[set[n]].geometry].kind = "Geometry"
                    /\ heap[set[n]].material = heap[set[n]].userData.glowMat
                    /\ DOMAIN Uniforms(set[n])
                          = {"thickness", "opacity", "gradientLimit", "partHeight"}
    /\ LET layerMeshes == UNION { Range(AllSets[k]) : k \in 1..Len(AllSets) }
       IN  /\ Cardinality({ heap[m].material : m \in layerMeshes })
                = LAYERS_COUNT * Len(AllSets)
           /\ \A id \in DOMAIN heap :
                 (heap[id].kind = "Mesh" /\ id \notin layerMeshes) =>
                     heap[id].material \notin { heap[m].material : m \in layerMeshes }

\* C7 witness: a model with six parts, a cape and one item
C7_Witness ==
    /\ Len(skinModel.glowMeshes) = 7
    /\ "cape" \in DOMAIN skinModel.parts
    /\ Len(items) = 1
    /\ Len(AllSets) = 8

\* the thickness the specification gives layer i (0-based) for base thickness
\* v: v * 0.05 * (i + 1) / N, with v in tenths and the result in 1 / (200 N)
SpecThickness(v, i) == v * (i + 1)

ThicknessApplied(sets, v) ==
    \A k \in 1..Len(sets) : \A n \in 1..Len(sets[k]) :
        /\ Uniforms(sets[k][n]).thickness = SpecThickness(v, n - 1)
        /\ (v > 0 /\ n > 1) =>
              Uniforms(sets[k][n]).thickness > Uniforms(sets[k][n - 1]).thickness

\* C8 as the specification states it: applying a base thickness v of the
\* control range sets layer i of every shell set to v * 0.05 * (i+1)/20, for
\* body-part shells (updateBorderThickness, through updateConfig) and for
\* item shells (updateItemGlow, through updateAllGlow)
C8_AsClaimed ==
    /\ (last.op = "updateConfig" /\ last.arg.thickness # Undefined) =>
          ThicknessApplied(skinModel.glowMeshes, last.arg.thickness)
    /\ (last.op = "updateAllGlow" /\ last.arg.thickness # Undefined) =>
          ThicknessApplied(ItemSets, last.arg.thickness)

\* the glow budgets of the code: 1.0 / 0.6 for the model, 1.2 for an item
BodyBudget == <<5, 3>>

ItemBudget == <<6, 5>>

\* every layer of every set has opacity 0 when disabled, and when enabled the
\* same opacity o with N * o = budget
OpacityApplied(sets, enabled, budget) ==
    \A k \in 1..Len(sets) : \A n \in 1..Len(sets[k]) :
        LET o == Uniforms(sets[k][n]).opacity
        IN  /\ o = Uniforms(sets[k][1]).opacity
            /\ o[2] > 0
            /\ IF enabled
               THEN Len(sets[k]) * o[1] * budget[2] = budget[1] * o[2]
               ELSE o[1] = 0

\* C9: disabling the glow sets the opacity of every layer of every shell set
\* the call reaches to 0, and enabling it sets every layer to the same
\* constant, whose sum over the set's N layers is the budget (5/3 for the
\* model's sets, through setGlowEffect; 6/5 for an item's set, through
\* updateItemGlow); the per-layer constant is budget/N for every N.
C9_OpacityBudget ==
    /\ last.op = "updateConfig" =>
          OpacityApplied(skinModel.glowMeshes, last.arg.enabled, BodyBudget)
    /\ last.op = "updateAllGlow" =>
          OpacityApplied(ItemSets, last.arg.enabled, ItemBudget)
    /\ (last.op = "itemLoaded" /\ last.outcome = "resolved" /\ fx.present) =>
          OpacityApplied(<< ItemSets[Len(ItemSets)] >>, fx.isEnabled, ItemBudget)
    /\ \A N \in 1..MaxLayers :
          /\ N * BodyOpacity(N)[1] * BodyBudget[2] = BodyBudget[1] * BodyOpacity(N)[2]
          /\ N * ItemOpacity(N)[1] * ItemBudget[2] = ItemBudget[1] * ItemOpacity(N)[2]

\* C9 witness: the glow was enabled on a built model with a cape
C9_Witness ==
    /\ last.op = "updateConfig" /\ last.arg.enabled
    /\ Len(skinModel.glowMeshes) = 7
    /\ Uniforms(skinModel.glowMeshes[7][20]).opacity[1] > 0

\* C25: after any sequence of build(), setCape(texture) and setCape(null),
\* every mesh in bodyMeshes and every layer set in glowMeshes belongs to an
\* object attached to the player group: the entries of a replaced or removed
\* cape are dropped, so the lists do not grow with repeated setCape calls.
C25_AsClaimed ==
    /\ Range(skinModel.bodyMeshes) \subseteq PlayerTree
    /\ \A k \in 1..Len(skinModel.glowMeshes) :
          Range(skinModel.glowMeshes[k]) \subseteq PlayerTree

\* a cape was replaced or removed and its main mesh is still in bodyMeshes
C25_Witness ==
    /\ last.op = "setCape"
    /\ \E k \in 1..Len(skinModel.bodyMeshes) :
          /\ skinModel.bodyMeshes[k] \notin PlayerTree
          /\ heap[heap[skinModel.bodyMeshes[k]].geometry].disposed

\* what the code does guarantee: the layer sets in glowMeshes are those of
\* the attached parts, one per part
C25_GlowSetsAttached ==
    /\ \A k \in 1..Len(skinModel.glowMeshes) :
          Range(skinModel.glowMeshes[k]) \subseteq PlayerTree
    /\ Len(skinModel.glowMeshes) = Cardinality(DOMAIN skinModel.parts)

\* the textures the meshes below an object render with
MapsBelow(object) ==
    { heap[heap[id].material].map :
        id \in { n \in Range(Traverse(heap, object)) :
                   heap[n].kind = "Mesh" /\ heap[n].material # 0 } } \ {0}

\* C26: a texture that build() disposes while tearing down the old model is
\* never attached to a mesh of the new model; the cape re-created at the end
\* of build() does not use a texture that build disposed.
C26_AsClaimed ==
    last.op = "build" =>
        \A t \in MapsBelow(skinModel.playerGroup) : ~heap[t].disposed

\* a model with a cape has been rebuilt and the new cape renders with the
\* texture of the old one, which the rebuild disposed
C26_Witness ==
    /\ last.op = "build"
    /\ "cape" \in DOMAIN skinModel.parts
    /\ \E t \in MapsBelow(skinModel.parts["cape"]) :
          /\ heap[t].disposed
          /\ t < made[Len(made)].from

\* what the code does guarantee: the six body parts of the new model render
\* with an undisposed texture
C26_BodyTextureLive ==
    last.op = "build" =>
        \A name \in DOMAIN skinModel.parts \ {"cape"} :
            \A t \in MapsBelow(skinModel.parts[name]) : ~heap[t].disposed

\* the item meshes in the scene: addItem marks them with their source URL
ItemMeshesInScene ==
    { id \in Range(heap[scene].children) : "sourceUrl" \in DOMAIN heap[id].userData }

ItemsDisposed == \E k \in 1..Len(made) : made[k].op = "dispose"

\* C27: after ItemsPlugin.dispose() the items list stays empty and no item
\* mesh is added to the scene; an addItem whose texture load completes after
\* the disposal attaches nothing.
C27_AsClaimed ==
    ItemsDisposed => /\ items = <<>>
                     /\ ItemMeshesInScene = {}

\* an item was requested, the plugin disposed while the texture was loading,
\* and the load then put the item into the list and the scene
C27_Witness ==
    /\ calls = 2 /\ made = <<[op |-> "dispose", from |-> 4, to |-> 3, pending |-> 1]>>
    /\ last.op = "itemLoaded" /\ last.outcome = "resolved"
    /\ Len(items) = 1 /\ items[1] \in ItemMeshesInScene

\* what the code does guarantee: right after dispose() the list is empty and
\* the scene holds no item mesh
C27_EmptiedByDispose ==
    last.op = "dispose" => /\ items = <<>>
                           /\ ItemMeshesInScene = {}

\* the part was where the build before had put it, unrotated and unscaled,
\* when loadSkin began
Untouched(name) ==
    /\ name \in DOMAIN last.arg.pose /\ name \in DOMAIN last.arg.defaults
    /\ DOMAIN last.arg.pose[name] = {"pos"}
    /\ last.arg.pose[name].pos = last.arg.defaults[name]

\* loadSkin has rebuilt a built model with the other arm type
ArmTypeChanged ==
    /\ last.op = "loadSkin"
    /\ "rightArm" \in DOMAIN last.arg.defaults
    /\ last.arg.defaults["rightArm"] # skinModel.defaultPositions["rightArm"]

\* the part has the transform the pose entry describes
PoseKept(name) ==
    LET data == last.arg.pose[name]
        o    == heap[skinModel.parts[name]]
    IN  /\ o.position = data.pos
        /\ o.rotation = IF "rot" \in DOMAIN data THEN data.rot ELSE <<0, 0, 0>>
        /\ o.scale = IF "scl" \in DOMAIN data THEN data.scl ELSE <<1000, 1000, 1000>>

\* C28: after loadSkin rebuilds the model with a different arm type, every
\* body part the user had not moved sits at the new build's default pivot
\* position (arms at x = -5/+5 for slim, -6/+6 for classic), while moved
\* parts keep their pose.
C28_AsClaimed ==
    ArmTypeChanged =>
        \A name \in DOMAIN skinModel.parts :
            IF Untouched(name)
            THEN heap[skinModel.parts[name]].position = skinModel.defaultPositions[name]
            ELSE PoseKept(name)

\* a classic model whose right arm was never touched was rebuilt slim, and
\* the arm is at x = -6 where the slim build puts it at -5
C28_Witness ==
    /\ ArmTypeChanged /\ last.arg.isSlim
    /\ Untouched("rightArm")
    /\ skinModel.defaultPositions["rightArm"] = <<-5000, -2000, 0>>
    /\ heap[skinModel.parts["rightArm"]].position = <<-6000, -2000, 0>>

\* what the code does guarantee: every part has after loadSkin the transform
\* it had before, its position included; untouched parts are at the new
\* default when the arm type did not change
C28_PoseReapplied ==
    (last.op = "loadSkin" /\ "rightArm" \in DOMAIN last.arg.defaults) =>
        /\ \A name \in DOMAIN skinModel.parts : PoseKept(name)
        /\ ~ArmTypeChanged =>
              \A name \in DOMAIN skinModel.parts :
                  Untouched(name) =>
                      heap[skinModel.parts[name]].position = skinModel.defaultPositions[name]

\* C29: after updateConfig(c) on a built model, getConfig() returns without
\* error a configuration with enabled = c.enabled, thickness = c.thickness
\* and height = c.height.
C29_AsClaimed ==
    (last.op = "updateConfig" /\ DOMAIN skinModel.parts # {}) =>
        \E c \in { getConfig(World, fx) } :
            /\ c.kind = "config"
            /\ c.enabled = last.arg.enabled
            /\ last.arg.thickness # Undefined => c.thickness = last.arg.thickness
            /\ last.arg.height # Undefined => c.height = last.arg.height

\* a configuration with thickness and height was applied to a built model,
\* and getConfig() throws
C29_Witness ==
    /\ last.op = "updateConfig" /\ HasPart(skinModel, "head")
    /\ last.arg.thickness # Undefined /\ last.arg.height # Undefined
    /\ getConfig(World, fx).kind = "throw"

\* what the code does guarantee: on a viewer whose model has no parts,
\* getConfig() returns enabled = c.enabled with the defaults for the rest
C29_WithoutModel ==
    (last.op = "updateConfig" /\ skinModel.glowMeshes = <<>>) =>
        \E c \in { getConfig(World, fx) } :
            /\ c.kind = "config"
            /\ c.enabled = last.arg.enabled
            /\ c.height = 500 /\ c.thickness = 40

\* the shell layers of the current model
ShellLayers == UNION { Range(skinModel.glowMeshes[k]) : k \in 1..Len(skinModel.glowMeshes) }

\* C30: the glow state agrees with the last applied effect configuration
\* across any interleaving of updateConfig, rebuilds (loadSkin) and setCape:
\* isEnabled is true exactly when every shell layer of the current model has
\* a non-zero opacity.
C30_AsClaimed ==
    (fx.present /\ ShellLayers # {}) =>
        (fx.isEnabled <=> \A m \in ShellLayers : Uniforms(m).opacity[1] # 0)

\* the glow was enabled and the model then rebuilt: isEnabled is still true
\* and every layer of the new model has opacity 0
C30_Witness ==
    /\ fx.present /\ fx.isEnabled
    /\ last.op = "build" /\ ShellLayers # {}
    /\ \A m \in ShellLayers : Uniforms(m).opacity[1] = 0

\* what the code does guarantee: right after updateConfig the layers agree
\* with isEnabled, all of them non-zero or all of them zero
C30_AgreesAfterUpdate ==
    (last.op = "updateConfig" /\ ShellLayers # {}) =>
        /\ fx.isEnabled = last.arg.enabled
        /\ fx.isEnabled => \A m \in ShellLayers : Uniforms(m).opacity[1] # 0
        /\ ~fx.isEnabled => \A m \in ShellLayers : Uniforms(m).opacity[1] = 0

====
